---- MODULE Spec2Model ----
(***************************************************************************)
(* Model of the dive profile engine of core/profile.c: the entry           *)
(* densifier (populate_plot_entries), the consumption estimator            *)
(* (calculate_sac / fill_sac / sac_between) and the decompression solver   *)
(* (calculate_deco_information / calculate_ndl_tts).                       *)
(*                                                                         *)
(* plot_data[k] of the C code is pi.entry[k + 1] here (sequences are       *)
(* 1-based); an event pointer is an index into dc.events, and              *)
(* Len(dc.events) + 1 is the NULL pointer.                                 *)
(***************************************************************************)
EXTENDS Integers, Sequences, FiniteSets, TLC

(* ------------------------------ bounds -------------------------------- *)
\* most samples of a device in the densifier inputs
MaxSamples == 3
\* most events of a device in the densifier inputs
MaxEvents == 2
\* cylinders modelled (MAX_CYLINDERS of the program is larger)
MaxCylinders == 2

(* -------------------------- program constants ------------------------- *)
\* raster of the densifier: offset = 10; offset += 10
RASTER == 10
\* depth below which a diver counts as surfaced
SURFACE_THRESHOLD == 750

Cyls == 0 .. (MaxCylinders - 1)

(* ------------------------------ helpers ------------------------------- *)
Max(a, b) == IF a >= b THEN a ELSE b
Min(a, b) == IF a <= b THEN a ELSE b
Abs(a) == IF a < 0 THEN -a ELSE a

\* C integer division truncates toward zero
CDiv(a, b) ==
  IF (a >= 0) = (b > 0) THEN Abs(a) \div Abs(b) ELSE -(Abs(a) \div Abs(b))

\* lrint of the rational n / d (d > 0) in the default rounding mode:
\* to nearest, ties to even
LRint(n, d) ==
  LET q == n \div d
      r == n % d
  IN  IF 2 * r < d THEN q
      ELSE IF 2 * r > d THEN q + 1
      ELSE IF q % 2 = 0 THEN q ELSE q + 1

\* interpolate() of dive.h: a + (b - a) * part / whole, rounded by lrint;
\* the mean of a and b when whole is 0
interpolate(a, b, part, whole) ==
  IF whole /= 0 THEN LRint(a * (whole - part) + b * part, whole)
  ELSE CDiv(a + b, 2)

RECURSIVE SeqMax(_)
SeqMax(s) == IF s = <<>> THEN 0 ELSE Max(Head(s), SeqMax(Tail(s)))

(* ------------------------------- state -------------------------------- *)
VARIABLES
  dc,        \* the divecomputer: [sample, events]
  dive,      \* the dive: [cylinder]
  pi,        \* the plot_info: [entry, nr, maxtime]
  loc,       \* locals of populate_plot_entries: idx, lasttime, lastdepth, ev, i
  sacloc,    \* locals of calculate_sac: i, gasmix, gases
  ds,        \* the deco_state the solver works on
  planner_ds,\* the planner's deco_state
  gate,      \* holder of the planner lock: "free", "solver" or "planner"
  dloc,      \* locals of calculate_deco_information
  ppc,       \* position of the planner
  prefs,     \* the preferences and modes the solver consults
  pc         \* position in create_plot_info_new

decovars == <<ds, planner_ds, gate, dloc, ppc, prefs>>
vars == <<dc, dive, pi, loc, sacloc, ds, planner_ds, gate, dloc, ppc, prefs, pc>>

\* a calloc'ed struct plot_data; kind records the statement that wrote the
\* entry: "zero" (calloc only), "raster", "event", "sample", "final"
ZeroEntry ==
  [sec |-> 0, depth |-> 0, running_sum |-> 0,
   pressure |-> [c \in Cyls |-> 0], sac |-> 0,
   ndl |-> 0, stopdepth |-> 0, stoptime |-> 0, tts |-> 0, in_deco |-> FALSE,
   ipressure |-> [c \in Cyls |-> 0],
   ceiling |-> 0, ndl_calc |-> 0, tts_calc |-> 0, stoptime_calc |-> 0,
   stopdepth_calc |-> 0, in_deco_calc |-> FALSE,
   o2pressure |-> 0, o2setpoint |-> 0, o2sensor |-> <<0, 0, 0>>,
   kind |-> "zero"]

(* ------------------------- calculate_max_limits_new ------------------- *)
\* the maxtime loop over the samples of one divecomputer: a sample counts
\* when it or its predecessor is below the surface threshold
RECURSIVE SampleMaxTime(_, _, _)
SampleMaxTime(samples, lastdepth, maxtime) ==
  IF samples = <<>> THEN maxtime
  ELSE LET s == Head(samples)
           m == IF (s.depth > SURFACE_THRESHOLD \/ lastdepth > SURFACE_THRESHOLD)
                   /\ s.time > maxtime
                THEN s.time ELSE maxtime
       IN  SampleMaxTime(Tail(samples), s.depth, m)

\* "Make sure we can fit all events"
RECURSIVE EventMaxTime(_, _)
EventMaxTime(events, maxtime) ==
  IF events = <<>> THEN maxtime
  ELSE EventMaxTime(Tail(events), Max(maxtime, Head(events).time))

\* pi.maxtime for the given divecomputer; other is the largest time the
\* dive's other divecomputers contribute (0 when there is none)
calculate_max_limits_new(d, other) ==
  Max(other, EventMaxTime(d.events, SampleMaxTime(d.sample, 0, 0)))

count_events(d) == Len(d.events)

(* --------------------------- populate_plot_entries -------------------- *)
\* INSERT_ENTRY: copy the previous entry, set time, depth, running sum,
\* clear the pressures, set sac, ndl = -1; entry++, idx++.  A write past
\* the allocation is recorded in overflow (the entry is not stored).
INSERT_ENTRY(st, time, depth, sac) ==
  IF st.overflow \/ st.idx >= Len(st.entry)
  THEN [st EXCEPT !.overflow = TRUE, !.idx = @ + 1]
  ELSE LET prev == st.entry[st.idx]
           e == [prev EXCEPT
                   !.sec = time,
                   !.depth = depth,
                   !.running_sum = prev.running_sum
                                   + CDiv((time - prev.sec) * (depth + prev.depth), 2),
                   !.pressure = [c \in Cyls |-> 0],
                   !.sac = sac,
                   !.ndl = -1,
                   !.kind = "event"]
       IN  [st EXCEPT !.entry[st.idx + 1] = e, !.idx = @ + 1]

\* the raster use of INSERT_ENTRY (line 566)
InsertRaster(st, time, depth, sac) ==
  LET s == INSERT_ENTRY(st, time, depth, sac)
  IN  IF s.overflow THEN s ELSE [s EXCEPT !.entry[st.idx + 1].kind = "raster"]

\* while (ev && ev->time.seconds == t) ev = ev->next;
RECURSIVE SkipEventsAt(_, _, _)
SkipEventsAt(st, events, t) ==
  IF st.ev <= Len(events) /\ events[st.ev].time = t
  THEN SkipEventsAt([st EXCEPT !.ev = @ + 1], events, t)
  ELSE st

\* the events before bound are passed over and no entry is written
RECURSIVE InsertEventsBefore_Drop(_, _, _)
InsertEventsBefore_Drop(st, cx, bound) ==
  IF st.ev <= Len(cx.events) /\ cx.events[st.ev].time < bound
  THEN InsertEventsBefore_Drop([st EXCEPT !.ev = @ + 1], cx, bound)
  ELSE st

\* while (ev && ev->time.seconds < bound) { INSERT_ENTRY(...); ev = ev->next; }
RECURSIVE InsertEventsBefore(_, _, _)
InsertEventsBefore(st, cx, bound) ==
  IF st.ev <= Len(cx.events) /\ cx.events[st.ev].time < bound
  THEN LET t == cx.events[st.ev].time
           s == INSERT_ENTRY(st, t,
                             interpolate(cx.lastdepth, cx.depth, t - cx.lasttime, cx.delta),
                             cx.sac)
       IN  InsertEventsBefore([s EXCEPT !.ev = @ + 1], cx, bound)
  ELSE st

\* the raster loop with the depth of the coming sample in place of the
\* interpolated depth
RECURSIVE RasterLoop_Flat(_, _, _)
RasterLoop_Flat(st, cx, offset) ==
  IF offset < cx.delta /\ ~(cx.lasttime + offset > cx.maxtime)
  THEN LET s1 == InsertEventsBefore(st, cx, cx.lasttime + offset)
           s2 == InsertRaster(s1, cx.lasttime + offset, cx.depth, cx.sac)
           s3 == SkipEventsAt(s2, cx.events, cx.lasttime + offset)
       IN  RasterLoop_Flat(s3, cx, offset + RASTER)
  ELSE st

\* for (offset = 10; offset < delta; offset += 10) { ... }
RECURSIVE RasterLoop(_, _, _)
RasterLoop(st, cx, offset) ==
  IF offset < cx.delta /\ ~(cx.lasttime + offset > cx.maxtime)
  THEN LET s1 == InsertEventsBefore(st, cx, cx.lasttime + offset)
           s2 == InsertRaster(s1, cx.lasttime + offset,
                              interpolate(cx.lastdepth, cx.depth, offset, cx.delta),
                              cx.sac)
           s3 == SkipEventsAt(s2, cx.events, cx.lasttime + offset)
       IN  RasterLoop(s3, cx, offset + RASTER)
  ELSE st

\* the entry of a real sample (lines 579-609), written into the calloc'ed
\* slot plot_data[idx]
SampleEntry(st, sample, time) ==
  IF st.overflow \/ st.idx >= Len(st.entry)
  THEN [st EXCEPT !.overflow = TRUE]
  ELSE LET prev == st.entry[st.idx]
           old == st.entry[st.idx + 1]
           e == [old EXCEPT
                   !.sec = time,
                   !.depth = sample.depth,
                   !.running_sum = prev.running_sum
                                   + CDiv((time - prev.sec) * (sample.depth + prev.depth), 2),
                   !.stopdepth = sample.stopdepth,
                   !.stoptime = sample.stoptime,
                   !.ndl = sample.ndl,
                   !.tts = sample.tts,
                   !.in_deco = sample.in_deco,
                   !.pressure = [c \in Cyls |->
                                   IF sample.pressure /= 0 /\ c = sample.sensor
                                   THEN sample.pressure ELSE old.pressure[c]],
                   !.sac = sample.sac,
                   !.o2pressure = IF st.rebreather THEN sample.setpoint ELSE @,
                   !.o2setpoint = IF st.rebreather THEN sample.setpoint ELSE @,
                   !.o2sensor = IF st.rebreather THEN sample.o2sensor ELSE @,
                   !.kind = "sample"]
       IN  [st EXCEPT !.entry[st.idx + 1] = e]

\* a sample time taken as it is, with no look at the previous sample
SampleTime_Unclamped(lasttime, t) == t

\* a sample at or before the previous one placed one second after it
SampleTime_Late(lasttime, t) == IF t - lasttime <= 0 THEN lasttime + 1 ELSE t

\* lines 550-554: the time used for a sample; a sample at or before the
\* previous one takes the previous time
SampleTime(lasttime, t) == IF t - lasttime <= 0 THEN lasttime ELSE t

\* lines 550-554: the duration since the previous sample, 1 when the
\* sample is at or before the previous one ("avoid divide by 0")
SampleDelta(lasttime, t) == IF t - lasttime <= 0 THEN 1 ELSE t - lasttime

\* one iteration of the loop over the samples (lines 541-619); a sample
\* past maxtime ends the loop (i = nsamples)
PopulateSample(st, sample, events, maxtime, nsamples) ==
  LET time == SampleTime(st.lasttime, sample.time)
      delta == SampleDelta(st.lasttime, sample.time)
      cx == [events |-> events, lasttime |-> st.lasttime, lastdepth |-> st.lastdepth,
             depth |-> sample.depth, delta |-> delta, sac |-> sample.sac,
             maxtime |-> maxtime]
      s1 == RasterLoop(st, cx, RASTER)
      s2 == InsertEventsBefore(s1, cx, time)
      s3 == SampleEntry(s2, sample, time)
      s4 == SkipEventsAt(s3, events, time)
  IN  [s4 EXCEPT !.lasttime = time,
                 !.lastdepth = sample.depth,
                 !.idx = @ + 1,
                 !.i = IF time > maxtime THEN nsamples ELSE @ + 1]

\* "Add any remaining events" (lines 622-631)
RECURSIVE RemainingEvents(_, _)
RemainingEvents(st, events) ==
  IF st.ev <= Len(events)
  THEN LET t == events[st.ev].time
           s == IF t > st.lasttime
                THEN [INSERT_ENTRY(st, t, 0, 0) EXCEPT !.lasttime = t]
                ELSE st
       IN  RemainingEvents([s EXCEPT !.ev = @ + 1], events)
  ELSE st

\* a final entry that repeats the last time
FinalEntry_NoOffset(st, k) ==
  IF st.overflow \/ st.idx >= Len(st.entry)
  THEN [st EXCEPT !.overflow = TRUE, !.idx = @ + 1]
  ELSE [st EXCEPT !.entry[st.idx + 1].sec = st.lasttime,
                  !.entry[st.idx + 1].kind = "final",
                  !.idx = @ + 1]

\* plot_data[idx++].sec = lasttime + k
FinalEntry(st, k) ==
  IF st.overflow \/ st.idx >= Len(st.entry)
  THEN [st EXCEPT !.overflow = TRUE, !.idx = @ + 1]
  ELSE [st EXCEPT !.entry[st.idx + 1].sec = st.lasttime + k,
                  !.entry[st.idx + 1].kind = "final",
                  !.idx = @ + 1]

\* lines 621-636: remaining events and the two final surface entries
PopulateFinish(st, events) ==
  FinalEntry(FinalEntry(RemainingEvents(st, events), 1), 2)

\* lines 528-540: size the series, calloc it, skip the events at time 0
\* dc->divemode == CCR || (dc->divemode == PSCR && dc->no_o2sensors)
Rebreather(d) ==
  d.divemode = "CCR" \/ (d.divemode = "PSCR" /\ d.no_o2sensors /= 0)

\* the series sized with no room for the padding entries
PopulateStart_NoPadding(d, maxtime) ==
  LET nr == Len(d.sample) + 2 + CDiv(maxtime, RASTER) + count_events(d)
  IN  SkipEventsAt([entry |-> [k \in 1 .. nr |-> ZeroEntry],
                    idx |-> 2, lasttime |-> 0, lastdepth |-> 0,
                    ev |-> 1, i |-> 0, overflow |-> FALSE,
                    rebreather |-> Rebreather(d)],
                   d.events, 0)

PopulateStart(d, maxtime) ==
  LET nr == Len(d.sample) + 6 + CDiv(maxtime, RASTER) + count_events(d)
  IN  SkipEventsAt([entry |-> [k \in 1 .. nr |-> ZeroEntry],
                    idx |-> 2, lasttime |-> 0, lastdepth |-> 0,
                    ev |-> 1, i |-> 0, overflow |-> FALSE,
                    rebreather |-> Rebreather(d)],
                   d.events, 0)

(* ------------------------------ inputs -------------------------------- *)
SampleTimes == {0, 12, 25}
SampleDepths == {0, 6000}
EventTimes == {0, 12, 20, 50}
OtherMaxTimes == {0, 60}

MkSample(t, d) ==
  [time |-> t, depth |-> d, pressure |-> 0, sensor |-> 0, sac |-> 0,
   stopdepth |-> 0, stoptime |-> 0, ndl |-> 0, tts |-> 0, in_deco |-> FALSE,
   setpoint |-> 0, o2sensor |-> <<0, 0, 0>>]

MkEvent(t) == [time |-> t, name |-> "bookmark", cyl |-> -1]

SeqsUpTo(S, n) == UNION {[1 .. k -> S] : k \in 0 .. n}

IsSorted(s) == \A k \in 1 .. (Len(s) - 1) : s[k] <= s[k + 1]

\* samples in any time order (malformed logs are not rejected)
SampleInputs ==
  {[k \in 1 .. Len(ts) |-> MkSample(ts[k][1], ts[k][2])] :
     ts \in SeqsUpTo(SampleTimes \X SampleDepths, MaxSamples)}

\* the event list of a divecomputer is kept in time order
EventInputs ==
  {[k \in 1 .. Len(ts) |-> MkEvent(ts[k])] :
     ts \in {s \in SeqsUpTo(EventTimes, MaxEvents) : IsSorted(s)}}

(* ------------------------------ actions ------------------------------- *)
NoLoc == [entry |-> <<>>, idx |-> 0, lasttime |-> 0, lastdepth |-> 0,
          ev |-> 1, i |-> 0, overflow |-> FALSE, rebreather |-> FALSE]

\* an air cylinder with no pressures entered
AirCylinder == [o2 |-> 0, size |-> 10000, start |-> 0, end |-> 0]
NoDive == [cylinder |-> [c \in Cyls |-> AirCylinder]]
NoSacLoc == [i |-> 0, gasmix |-> -1, gases |-> {}]
\* a deco_state before init_decompression
NoDs == [tissue |-> 0, gradient |-> 0, deco_time |-> 0,
         first_ceiling_pressure |-> 0]
\* the locals of calculate_deco_information before it is entered; acquired
\* and released count its calls of lock_planner and unlock_planner, walks
\* the passes of its while loop
NoDloc == [pcd |-> "idle", i |-> 0, count_iteration |-> 0,
           first_iteration |-> TRUE, prev_deco_time |-> 0,
           time_deep_ceiling |-> 0, cache_data_initial |-> <<>>,
           last_ndl_tts_calc_time |-> 0, first_ceiling |-> 0,
           current_ceiling |-> 0, last_ceiling |-> 0, final_tts |-> 0,
           time_clear_ceiling |-> 0, cache_data |-> <<>>,
           walks |-> 0, acquired |-> 0, released |-> 0, steps |-> <<>>]
NoPrefs == [decoMode |-> "BUEHLMANN", in_planner |-> FALSE,
            calcndltts |-> FALSE, calcceiling3m |-> FALSE,
            print_mode |-> FALSE]

\* the solver and the planner are not running
DecoIdle ==
  /\ ds = NoDs
  /\ planner_ds = NoDs
  /\ gate = "free"
  /\ dloc = NoDloc
  /\ ppc = "idle"
  /\ prefs = NoPrefs

\* the values pi->nr can hold when create_plot_info_new is entered: 0 in a
\* fresh plot_info, the length of the previous series in a reused one
PriorNr == {0, 5}

InitPopulate ==
  /\ \E s \in SampleInputs, e \in EventInputs :
        dc = [sample |-> s, events |-> e,
              divemode |-> "OC", no_o2sensors |-> 0]
  /\ \E other \in OtherMaxTimes, nr \in PriorNr :
        pi = [entry |-> <<>>, nr |-> nr,
              maxtime |-> calculate_max_limits_new(dc, other)]
  /\ dive = NoDive
  /\ loc = NoLoc
  /\ sacloc = NoSacLoc
  /\ DecoIdle
  /\ pc = "populate"

\* populate_plot_entries up to the loop over the samples
PopulateAlloc ==
  /\ pc = "populate"
  /\ loc' = PopulateStart(dc, pi.maxtime)
  /\ pi' = [pi EXCEPT !.entry = loc'.entry, !.nr = Len(loc'.entry)]
  /\ pc' = "samples"
  /\ UNCHANGED <<dc, dive, sacloc, decovars>>

\* one iteration of the loop over the samples
PopulateSampleStep ==
  /\ pc = "samples"
  /\ loc.i < Len(dc.sample)
  /\ loc' = PopulateSample(loc, dc.sample[loc.i + 1], dc.events, pi.maxtime,
                           Len(dc.sample))
  /\ pi' = [pi EXCEPT !.entry = loc'.entry]
  /\ UNCHANGED <<dc, dive, sacloc, decovars, pc>>

\* after the loop: remaining events, final entries, pi->nr = idx
PopulateEnd ==
  /\ pc = "samples"
  /\ loc.i >= Len(dc.sample)
  /\ loc' = PopulateFinish(loc, dc.events)
  /\ pi' = [pi EXCEPT !.entry = loc'.entry, !.nr = loc'.idx]
  /\ pc' = "populated"
  /\ UNCHANGED <<dc, dive, sacloc, decovars>>

\* calloc returns NULL: pi->entry = NULL; return NULL; pi->nr is not set
PopulateAllocFails ==
  /\ pc = "populate"
  /\ pi' = [pi EXCEPT !.entry = <<>>]
  /\ pc' = "null_series"
  /\ UNCHANGED <<dc, dive, loc, sacloc, decovars>>

\* the rest of create_plot_info_new after a NULL series: its loops run
\* for (i = 0; i < pi->nr; i++) and dereference pi->entry + i
RestOnNullSeries ==
  /\ pc = "null_series"
  /\ pc' = IF pi.nr > 0 THEN "null_dereference" ELSE "unplottable"
  /\ UNCHANGED <<dc, dive, pi, loc, sacloc, decovars>>

NextPopulate ==
  \/ PopulateAlloc \/ PopulateSampleStep \/ PopulateEnd
  \/ PopulateAllocFails \/ RestOnNullSeries

SpecPopulate == InitPopulate /\ [][NextPopulate]_vars

(* ===================== claims about the densifier ===================== *)
Populated == pc = "populated" /\ ~loc.overflow

Entries == 1 .. pi.nr

EventTimesOf(d) == {d.events[k].time : k \in 1 .. Len(d.events)}

\* number of events of the device at time t
EventsAt(t) == Cardinality({k \in 1 .. Len(dc.events) : dc.events[k].time = t})

\* number of entries written for events (INSERT_ENTRY of an event) at time t
EventEntriesAt(t) ==
  Cardinality({k \in Entries : pi.entry[k].kind = "event" /\ pi.entry[k].sec = t})

\* C1: the entry times of the series produced by populate_plot_entries are
\* non-decreasing, for every sample stream (equal or decreasing sample
\* times included) and every time-ordered event list.
C1_TimesNonDecreasing ==
  pc = "populated" =>
    /\ ~loc.overflow
    /\ \A k \in 2 .. pi.nr : pi.entry[k].sec >= pi.entry[k - 1].sec

\* a series built from a sample whose time is below its predecessor's,
\* with an event entry in it
C1_Witness ==
  /\ Populated
  /\ \E k \in 2 .. Len(dc.sample) : dc.sample[k].time < dc.sample[k - 1].time
  /\ \E k \in Entries : pi.entry[k].kind = "event"

\* C2: every series has at least 4 entries, starts with two entries of
\* time 0 and depth 0 and ends with two entries of depth 0 at times L + 1
\* and L + 2, L being the last real timestamp (the time of the last sample
\* or trailing event written, 0 when nothing was written).
C2_Padding ==
  pc = "populated" =>
    /\ ~loc.overflow
    /\ pi.nr >= 4
    /\ pi.nr <= Len(pi.entry)
    /\ \A k \in 1 .. 2 : pi.entry[k].sec = 0 /\ pi.entry[k].depth = 0
    /\ LET L == pi.entry[pi.nr - 2].sec
       IN  /\ L = loc.lasttime
           /\ pi.entry[pi.nr - 2].kind \in {"zero", "sample", "event"}
           /\ pi.entry[pi.nr - 1].sec = L + 1 /\ pi.entry[pi.nr - 1].depth = 0
           /\ pi.entry[pi.nr].sec = L + 2 /\ pi.entry[pi.nr].depth = 0

\* a series whose last real entry is a trailing event after the last sample
C2_Witness ==
  /\ Populated
  /\ dc.sample /= <<>>
  /\ pi.entry[pi.nr - 2].kind = "event"
  /\ pi.entry[pi.nr - 2].sec > 0

\* C3 as claimed: exactly one entry exists per event, i.e. at every time
\* the number of event entries equals the number of events at that time
\* (time 0, a time shared with a sample or raster point, and a time shared
\* by several events included).
C3_OneEntryPerEvent ==
  pc = "populated" =>
    \A t \in EventTimesOf(dc) : EventEntriesAt(t) = EventsAt(t)

\* C3 amended: every event has at least one entry at its exact time (its
\* own, or the padding, sample, raster or event entry it coincides with),
\* and at no time are there more event entries than events.
C3_EventTimeRepresented ==
  pc = "populated" =>
    /\ ~loc.overflow
    /\ \A t \in EventTimesOf(dc) :
          /\ \E k \in Entries : pi.entry[k].sec = t
          /\ EventEntriesAt(t) <= EventsAt(t)
    /\ \A k \in Entries :
          pi.entry[k].kind = "event" => pi.entry[k].sec \in EventTimesOf(dc)

\* a series with an event that has no entry of its own and one that has
C3_Witness ==
  /\ Populated
  /\ \E t \in EventTimesOf(dc) : EventEntriesAt(t) = 0
  /\ \E t \in EventTimesOf(dc) : EventEntriesAt(t) = 1

\* C4 as claimed: two consecutive entries whose times are both at or below
\* maxtime are at most 10 s apart.
C4_RasterSpacing ==
  pc = "populated" =>
    \A k \in 2 .. pi.nr :
      (pi.entry[k].sec <= pi.maxtime /\ pi.entry[k - 1].sec <= pi.maxtime)
        => pi.entry[k].sec - pi.entry[k - 1].sec <= RASTER

\* C11 as claimed: after a failed allocation the later steps of
\* create_plot_info_new see a series of length 0 and touch no entry of
\* it, whatever pi->nr was before the call.
C11_NullSeriesEmpty ==
  /\ pc = "null_series" => pi.nr = 0
  /\ pc /= "null_dereference"

\* the sample entries around the entry at index k
SampleBefore(k) == {j \in 1 .. k - 1 : pi.entry[j].kind = "sample"}
SampleAfter(k) == {j \in k + 1 .. pi.nr : pi.entry[j].kind = "sample"}
SetMax(S) == CHOOSE x \in S : \A y \in S : y <= x
SetMin(S) == CHOOSE x \in S : \A y \in S : x <= y

\* the entries synthesized between two sample entries
Between == {k \in Entries : /\ pi.entry[k].kind \in {"raster", "event"}
                            /\ SampleBefore(k) /= {}
                            /\ SampleAfter(k) /= {}}

\* the depth of entry k is the value at its time of the line from the
\* sample entry before it to the one after it, to the nearest mm
OnTheLine(k) ==
  LET a == pi.entry[SetMax(SampleBefore(k))]
      b == pi.entry[SetMin(SampleAfter(k))]
      whole == b.sec - a.sec
      part == pi.entry[k].sec - a.sec
  IN  /\ whole > 0
      /\ 2 * Abs(pi.entry[k].depth * whole
                 - (a.depth * whole + (b.depth - a.depth) * part)) <= whole

\* C12: a raster entry and an event entry between two samples have the
\* depth of the linear interpolation between the two samples at their
\* time (in whole mm).
C12_Interpolated ==
  Populated => \A k \in Between : OnTheLine(k)

\* a raster entry and an event entry between samples of different depths,
\* the raster entry at a time where the line is not at a whole mm
C12_Witness ==
  /\ Populated
  /\ \E k \in Between :
       LET a == pi.entry[SetMax(SampleBefore(k))]
           b == pi.entry[SetMin(SampleAfter(k))]
       IN  /\ pi.entry[k].kind = "raster"
           /\ a.depth /= b.depth
           /\ ((b.depth - a.depth) * (pi.entry[k].sec - a.sec))
                 % (b.sec - a.sec) /= 0
  /\ \E k \in Between :
       /\ pi.entry[k].kind = "event"
       /\ pi.entry[SetMax(SampleBefore(k))].depth
             /= pi.entry[SetMin(SampleAfter(k))].depth


(* ============================ the whole densifier ===================== *)
RECURSIVE PopulateLoop(_, _, _)
PopulateLoop(st, d, maxtime) ==
  IF st.i < Len(d.sample)
  THEN PopulateLoop(PopulateSample(st, d.sample[st.i + 1], d.events, maxtime,
                                   Len(d.sample)),
                    d, maxtime)
  ELSE st

\* populate_plot_entries as one step: the plot_info it leaves
populate_plot_entries(d, maxtime) ==
  LET st == PopulateFinish(PopulateLoop(PopulateStart(d, maxtime), d, maxtime),
                           d.events)
  IN  [entry |-> st.entry, nr |-> st.idx, maxtime |-> maxtime]

(* ======================= consumption estimator ======================== *)
\* the gas mix of air, in permille of O2
AIR_O2 == 209
\* mbar in one atmosphere (mbar_to_atm)
ATM_MBAR == 1013
\* seconds per minute: "atmseconds" into "atmminutes"
MINUTE == 60
\* the lowest value of a 32 bit int
INT_MIN == -2147483647 - 1

\* GET_PRESSURE of profile.h: the sensor pressure, else the interpolated one
GET_PRESSURE(entry, c) ==
  IF entry.pressure[c] /= 0 THEN entry.pressure[c] ELSE entry.ipressure[c]

\* the gas change events of the device that name a cylinder
GasChanges(d) == SelectSeq(d.events, LAMBDA e : e.name = "gaschange" /\ e.cyl >= 0)

RECURSIVE CylinderAt(_, _, _)
CylinderAt(changes, t, cur) ==
  IF changes = <<>> \/ Head(changes).time > t THEN cur
  ELSE CylinderAt(Tail(changes), t, Head(changes).cyl)

\* get_gasmix of dive.c: the mix of the cylinder of the most recent gas
\* change at or before t, the mix of the first cylinder before any change
get_gasmix(dv, d, t) == dv.cylinder[CylinderAt(GasChanges(d), t, 0)].o2

same_gasmix(a, b) == a = b

\* gas_volume of dive.c: the gas (ml at 1 atm) a cylinder holds at p mbar
gas_volume(cyl, p) == LRint(cyl.size * p, ATM_MBAR)

\* depth_to_mbar of dive.h: 10 m of water are 1 bar
depth_to_mbar(depth) == ATM_MBAR + CDiv(depth, 10)

\* the values lrint() of +infinity, converted to int, takes in the builds
\* of the program: LONG_MIN truncated (x86-64), LONG_MAX truncated
\* (AArch64), and the 32 bit long minimum (Windows, 32 bit targets)
LrintOfInfinity == {0, -1, INT_MIN}

\* matching_gases: the cylinders whose mix is the given one
matching_gases(dv, gasmix) == {c \in Cyls : same_gasmix(gasmix, dv.cylinder[c].o2)}

\* have_pressures: the cylinders of the set that have a pressure at the entry
have_pressures(entry, gases) == {c \in gases : GET_PRESSURE(entry, c) /= 0}

\* the sum of the function f over the set S
RECURSIVE SumOver(_, _)
SumOver(S, f) ==
  IF S = {} THEN 0
  ELSE LET x == CHOOSE y \in S : TRUE IN f[x] + SumOver(S \ {x}, f)

\* lines 656-672: the gas used over the range, summed over the cylinders
\* that lost gas
AirUse(dv, first, last, gases) ==
  LET use(c) == gas_volume(dv.cylinder[c], GET_PRESSURE(first, c))
                - gas_volume(dv.cylinder[c], GET_PRESSURE(last, c))
  IN  SumOver(gases, [c \in gases |-> IF use(c) > 0 THEN use(c) ELSE 0])

\* lines 676-684: ambient pressure integrated over the range, in mbar
\* seconds (the code keeps it in atm seconds)
RECURSIVE PressureTime(_, _, _)
PressureTime(entry, first, last) ==
  LET depth == CDiv(entry[first].depth + entry[first + 1].depth, 2)
      time == entry[first + 1].sec - entry[first].sec
      here == depth_to_mbar(depth) * time
  IN  IF first + 1 < last THEN here + PressureTime(entry, first + 1, last)
      ELSE here

\* sac_between: the values the function can return for the entries first
\* to last (indexes) and the cylinder set gases.  airuse / pressuretime is
\* a double division: with a zero pressuretime it is +infinity and lrint
\* of it has no specified value.
sac_between(dv, entry, first, last, gases) ==
  IF first = last THEN {0}
  ELSE LET airuse == AirUse(dv, entry[first], entry[last], gases)
           pt == PressureTime(entry, first, last)
       IN  IF airuse = 0 THEN {0}
           ELSE IF pt = 0 THEN LrintOfInfinity
           ELSE IF pt > 0 THEN {LRint(airuse * MINUTE * ATM_MBAR, pt)}
           ELSE {-LRint(airuse * MINUTE * ATM_MBAR, -pt)}

\* the way back with no limit of 30 seconds
RECURSIVE WindowFirst_NoLimit(_, _, _, _)
WindowFirst_NoLimit(entry, first, time, gases) ==
  IF first > 1
  THEN LET prev == entry[first - 1]
       IN  IF prev.depth < SURFACE_THRESHOLD /\ entry[first].depth < SURFACE_THRESHOLD
           THEN first
           ELSE IF have_pressures(prev, gases) /= gases THEN first
           ELSE WindowFirst_NoLimit(entry, first - 1, time, gases)
  ELSE first

\* lines 733-746: go back up to 30 seconds to find 'first'
RECURSIVE WindowFirst(_, _, _, _)
WindowFirst(entry, first, time, gases) ==
  IF first > 1
  THEN LET prev == entry[first - 1]
       IN  IF prev.depth < SURFACE_THRESHOLD /\ entry[first].depth < SURFACE_THRESHOLD
           THEN first
           ELSE IF prev.sec < time THEN first
           ELSE IF have_pressures(prev, gases) /= gases THEN first
           ELSE WindowFirst(entry, first - 1, time, gases)
  ELSE first

\* lines 748-760: go on up to a minute after 'first' to find 'last'
RECURSIVE WindowLast(_, _, _, _, _)
WindowLast(entry, nr, last, time, gases) ==
  IF last + 1 <= nr
  THEN LET next == entry[last + 1]
       IN  IF next.depth < SURFACE_THRESHOLD /\ entry[last].depth < SURFACE_THRESHOLD
           THEN last
           ELSE IF next.sec > time THEN last
           ELSE IF have_pressures(next, gases) /= gases THEN last
           ELSE WindowLast(entry, nr, last + 1, time, gases)
  ELSE last

\* the window [first, last] fill_sac uses for the entry at index k
SacWindow(p, k, gases) ==
  LET first == WindowFirst(p.entry, k, p.entry[k].sec - 30, gases)
      last == WindowLast(p.entry, p.nr, first, p.entry[first].sec + 60, gases)
  IN  [first |-> first, last |-> last]

\* fill_sac: the values entry->sac of the entry at index k can hold
\* afterwards
fill_sac(dv, p, k, gases0) ==
  LET entry == p.entry[k]
      gases == have_pressures(entry, gases0)
      w == SacWindow(p, k, gases)
  IN  IF entry.sac /= 0 THEN {entry.sac}
      ELSE IF gases = {} THEN {entry.sac}
      ELSE sac_between(dv, p.entry, w.first, w.last, gases)

(* ------------------------- inputs of the estimator -------------------- *)
\* most samples of a device in the estimator inputs
MaxSacSamples == 2

SacSampleTimes == {5, 10, 15}
\* sensor readings of a sample: pressure, sensor, sac reported by the device
SacReadings ==
  {<<0, 0, 0>>, <<200000, 0, 0>>, <<199000, 0, 0>>, <<150000, 1, 0>>, <<0, 0, 12000>>}

MkSacSample(t, d, r) ==
  [time |-> t, depth |-> d, pressure |-> r[1], sensor |-> r[2], sac |-> r[3],
   stopdepth |-> 0, stoptime |-> 0, ndl |-> 0, tts |-> 0, in_deco |-> FALSE]

SacSampleInputs ==
  {[k \in 1 .. Len(ts) |-> MkSacSample(ts[k][1], ts[k][2], ts[k][3])] :
     ts \in SeqsUpTo(SacSampleTimes \X SampleDepths \X SacReadings, MaxSacSamples)}

MkGasChange(t, c) == [time |-> t, name |-> "gaschange", cyl |-> c]

SacEventInputs == {<<>>, <<MkGasChange(10, 1)>>}

\* two cylinders: air, and air or nitrox 50
SacDiveInputs ==
  {[cylinder |-> [c \in Cyls |->
      [AirCylinder EXCEPT !.o2 = IF c = 1 THEN o ELSE AIR_O2]]] : o \in {AIR_O2, 500}}

(* ------------------------- actions of the estimator ------------------- *)
\* the state create_plot_info_new is in when it calls calculate_sac, for a
\* dive whose cylinders have no pressures entered by hand
InitSac ==
  /\ \E s \in SacSampleInputs, e \in SacEventInputs :
        dc = [sample |-> s, events |-> e,
              divemode |-> "OC", no_o2sensors |-> 0]
  /\ dive \in SacDiveInputs
  /\ pi = populate_plot_entries(dc, calculate_max_limits_new(dc, 0))
  /\ loc = NoLoc
  /\ sacloc = NoSacLoc
  /\ DecoIdle
  /\ pc = "sac"

\* one iteration of the loop of calculate_sac
CalculateSacStep ==
  /\ pc = "sac"
  /\ sacloc.i < pi.nr
  /\ LET k == sacloc.i + 1
         newmix == get_gasmix(dive, dc, pi.entry[k].sec)
         changed == ~same_gasmix(newmix, sacloc.gasmix)
         gases == IF changed THEN matching_gases(dive, newmix) ELSE sacloc.gases
     IN  \E v \in fill_sac(dive, pi, k, gases) :
            /\ pi' = [pi EXCEPT !.entry[k].sac = v]
            /\ sacloc' = [i |-> k,
                          gasmix |-> IF changed THEN newmix ELSE sacloc.gasmix,
                          gases |-> gases]
  /\ UNCHANGED <<dc, dive, loc, decovars, pc>>

\* the loop of calculate_sac is over
CalculateSacEnd ==
  /\ pc = "sac"
  /\ sacloc.i >= pi.nr
  /\ pc' = "sac_done"
  /\ UNCHANGED <<dc, dive, pi, loc, sacloc, decovars>>

NextSac == CalculateSacStep \/ CalculateSacEnd

SpecSac == InitSac /\ [][NextSac]_vars

(* ====================== claims about the estimator ==================== *)
\* the cylinders matching the mix in use at the entry at index k
GasesAt(k) == matching_gases(dive, get_gasmix(dive, dc, pi.entry[k].sec))

\* the SAC the entry at index k had when calculate_sac began (the one the
\* device reported, copied by populate_plot_entries)
DeviceSac(k) == populate_plot_entries(dc, pi.maxtime).entry[k].sac

\* C8 as claimed: every SAC value the estimator gives an entry (one that
\* came without a SAC of the device) is >= 0, and it is exactly 0 when no
\* cylinder of the active mix has a pressure reading at the entry.
C8_SacNonNegative ==
  \A k \in 1 .. sacloc.i :
     DeviceSac(k) = 0 =>
       /\ pi.entry[k].sac >= 0
       /\ have_pressures(pi.entry[k], GasesAt(k)) = {} => pi.entry[k].sac = 0

(* ===================== the decompression solver ======================= *)
MaxDecoSamples == 2
MaxGradient == 1

\* the cap of NDL and TTS
MAX_PROFILE_DECO == 7200
\* the initial prev_deco_time, the convergence threshold and the cap of
\* the number of walks of the while loop of calculate_deco_information
PREV_DECO_TIME == 10000000
CONVERGED == 30
MAX_ITERATIONS == 10
\* time_stepsize of the walk, and the throttle of the nested simulation
WALK_STEPSIZE == 20
NDL_TTS_INTERVAL == 30
\* time_stepsize and deco_stepsize of calculate_ndl_tts
TIME_STEPSIZE == 60
DECO_STEPSIZE == 3000

ROUND_UP(x, y) == CDiv(x + y - 1, y) * y

(* --- the tissue model (deco.c, planner.c): one compartment loaded at a
       limited rate, a fixed tolerated supersaturation that the VPM-B
       gradient parameter lowers --- *)
TISSUE_RATE == 20
SUPERSATURATION == 700
GRADIENT_STEP == 150
ASCENT_RATE == 150
Gradients == 0 .. MaxGradient

\* the surface pressure of the dive in mbar
surface_pressure == ATM_MBAR

\* init_decompression with no previous dive: equilibrium at the surface
init_decompression ==
  [tissue |-> ATM_MBAR, gradient |-> 0, deco_time |-> 0,
   first_ceiling_pressure |-> 0]

\* the tissue moves toward the ambient pressure for `duration` seconds
add_segment(s, pressure, duration) ==
  LET d == pressure - s.tissue
      lim == TISSUE_RATE * duration
  IN  [s EXCEPT !.tissue = @ + (IF d > lim THEN lim
                                 ELSE IF d < -lim THEN -lim ELSE d)]

\* the ambient pressure the tissue tolerates
tissue_tolerance_calc(s, mode) ==
  s.tissue - (IF mode = "VPMB"
              THEN SUPERSATURATION - GRADIENT_STEP * s.gradient
              ELSE SUPERSATURATION)

\* the depth in mm of a tolerated pressure, in steps of 3 m unless smooth
deco_allowed_depth(tolerated, surface, smooth) ==
  LET depth == (tolerated - surface) * 10
  IN  IF depth < 0 THEN 0
      ELSE IF smooth THEN depth ELSE ROUND_UP(depth, DECO_STEPSIZE)

ascent_velocity(depth, avg_depth, bottom_time) == ASCENT_RATE

\* the gradient parameters: reset, and derived anew from the deco time;
\* the derivation is outside these sources, so any gradient g may result
nuclear_regeneration(s, t) == s
vpmb_start_gradient(s) == [s EXCEPT !.gradient = 0]
vpmb_next_gradient(s, deco_time, g) == [s EXCEPT !.gradient = g]

\* a checkpoint is a copy of the whole state; a restore copies it back,
\* keeping the gradient parameters of the target when asked to
cache_deco_state(s) == <<s>>
restore_deco_state(data, target, keep_vpmb_state) ==
  IF keep_vpmb_state THEN [data[1] EXCEPT !.gradient = target.gradient]
  ELSE data[1]

(* ------------------------- calculate_ndl_tts -------------------------- *)
NextStop(s, mode) ==
  ROUND_UP(deco_allowed_depth(tissue_tolerance_calc(s, mode),
                              surface_pressure, TRUE), DECO_STEPSIZE)

(* The loops of calculate_ndl_tts run up to 120 times and more. Each is
   given by its condition and its body; XSteps(x, n) runs the loop for at
   most n passes, and XLoop(x, n) runs it to its end, n passes and then
   twice as many at a time. *)

\* the condition of the NDL loop without the cap of the NDL
NdlCond_NoCap(x, mode) ==
  deco_allowed_depth(tissue_tolerance_calc(x.ds, mode),
                     surface_pressure, TRUE) <= 0

\* while (entry->ndl_calc < MAX_PROFILE_DECO && no ceiling); x is
\* [ds, entry]
NdlCond(x, mode) ==
  /\ x.entry.ndl_calc < MAX_PROFILE_DECO
  /\ deco_allowed_depth(tissue_tolerance_calc(x.ds, mode),
                        surface_pressure, TRUE) <= 0

NdlStep(x, mode) ==
  [ds |-> add_segment(x.ds, depth_to_mbar(x.entry.depth), TIME_STEPSIZE),
   entry |-> [x.entry EXCEPT !.ndl_calc = @ + TIME_STEPSIZE]]

RECURSIVE NdlSteps(_, _, _)
NdlSteps(x, mode, n) ==
  IF n = 0 \/ ~NdlCond(x, mode) THEN x
  ELSE IF n = 1 THEN NdlStep(x, mode)
  ELSE NdlSteps(NdlSteps(x, mode, n \div 2), mode, n - n \div 2)

RECURSIVE NdlLoop(_, _, _)
NdlLoop(x, mode, n) ==
  LET r == NdlSteps(x, mode, n)
  IN  IF NdlCond(r, mode) THEN NdlLoop(r, mode, 2 * n) ELSE r

\* the ascent to the first stop, one second a pass; a is the simulation:
\* [ds, entry, ascent_depth, next_stop, break]
AscentCond(a) == a.ascent_depth > a.next_stop

AscentStep(a, mode) ==
  LET s1 == add_segment(a.ds, depth_to_mbar(a.ascent_depth), 1)
  IN  [a EXCEPT !.ds = s1,
                !.next_stop = NextStop(s1, mode),
                !.ascent_depth = @ - ascent_velocity(a.ascent_depth, 0, 0),
                !.entry.tts_calc = @ + 1]

RECURSIVE AscentSteps(_, _, _)
AscentSteps(a, mode, n) ==
  IF n = 0 \/ ~AscentCond(a) THEN a
  ELSE IF n = 1 THEN AscentStep(a, mode)
  ELSE AscentSteps(AscentSteps(a, mode, n \div 2), mode, n - n \div 2)

RECURSIVE AscentToStop(_, _, _)
AscentToStop(a, mode, n) ==
  LET r == AscentSteps(a, mode, n)
  IN  IF AscentCond(r) THEN AscentToStop(r, mode, 2 * n) ELSE r

\* the travel between two stops, one second a pass
TravelStep(a) ==
  [a EXCEPT !.ds = add_segment(a.ds, depth_to_mbar(a.ascent_depth), 1),
            !.ascent_depth = @ - ascent_velocity(a.ascent_depth, 0, 0),
            !.entry.tts_calc = @ + 1]

RECURSIVE TravelSteps(_, _)
TravelSteps(a, n) ==
  IF n = 0 \/ ~AscentCond(a) THEN a
  ELSE IF n = 1 THEN TravelStep(a)
  ELSE TravelSteps(TravelSteps(a, n \div 2), n - n \div 2)

RECURSIVE TravelLoop(_, _)
TravelLoop(a, n) ==
  LET r == TravelSteps(a, n)
  IN  IF AscentCond(r) THEN TravelLoop(r, 2 * n) ELSE r

\* while (next_stop >= 0): a minute at the stop, then up when allowed;
\* left by break when the TTS exceeds the cap
StopCond(a) == a.next_stop >= 0 /\ ~a.break

StopStep(a, mode) ==
  LET e1 == [a.entry EXCEPT
               !.stoptime_calc =
                  IF a.ascent_depth = a.entry.stopdepth_calc
                  THEN @ + TIME_STEPSIZE ELSE @,
               !.tts_calc = @ + TIME_STEPSIZE]
  IN  IF e1.tts_calc > MAX_PROFILE_DECO
      THEN [a EXCEPT !.entry = e1, !.break = TRUE]
      ELSE
        LET s1 == add_segment(a.ds, depth_to_mbar(a.ascent_depth),
                              TIME_STEPSIZE)
            a1 == [a EXCEPT !.ds = s1, !.entry = e1]
        IN  IF deco_allowed_depth(tissue_tolerance_calc(s1, mode),
                                  surface_pressure, TRUE) <= a.next_stop
            THEN [TravelLoop(a1, 1) EXCEPT
                    !.ascent_depth = a.next_stop,
                    !.next_stop = a.next_stop - DECO_STEPSIZE]
            ELSE a1

RECURSIVE StopSteps(_, _, _)
StopSteps(a, mode, n) ==
  IF n = 0 \/ ~StopCond(a) THEN a
  ELSE IF n = 1 THEN StopStep(a, mode)
  ELSE StopSteps(StopSteps(a, mode, n \div 2), mode, n - n \div 2)

RECURSIVE StopLoop(_, _, _)
StopLoop(a, mode, n) ==
  LET r == StopSteps(a, mode, n)
  IN  IF StopCond(r) THEN StopLoop(r, mode, 2 * n) ELSE r

\* the simulation from the entry to the surface: the state it leaves in ds
\* and the entry with the recalculated NDL, stop and TTS
calculate_ndl_tts(s, entry, mode) ==
  LET next_stop == NextStop(s, mode)
      e0 == [entry EXCEPT !.tts_calc = 0]
  IN  IF next_stop = 0
      THEN IF entry.depth < DECO_STEPSIZE
           THEN [ds |-> s, entry |-> [e0 EXCEPT !.ndl = MAX_PROFILE_DECO]]
           ELSE NdlLoop([ds |-> s, entry |-> e0], mode, 1)
      ELSE LET a1 == AscentToStop(
                       [ds |-> s,
                        entry |-> [e0 EXCEPT !.in_deco_calc = TRUE],
                        ascent_depth |-> entry.depth,
                        next_stop |-> next_stop,
                        break |-> FALSE], mode, 1)
               a2 == [a1 EXCEPT !.ascent_depth = a1.next_stop,
                                !.entry.stoptime_calc = 0,
                                !.entry.stopdepth_calc = a1.next_stop,
                                !.next_stop = a1.next_stop - DECO_STEPSIZE]
               a3 == StopLoop(a2, mode, 1)
           IN  [ds |-> a3.ds, entry |-> a3.entry]

(* --------------------- calculate_deco_information --------------------- *)
\* the sub-steps with a step size that never shrinks to fit the gap
RECURSIVE SubSteps_NoShrink(_, _, _, _, _, _, _)
SubSteps_NoShrink(s, prev, entry, t0, t1, j, ts) ==
  IF j <= t1
  THEN LET depth == interpolate(prev.depth, entry.depth, j - t0, t1 - t0)
           s1 == add_segment(s, depth_to_mbar(depth), ts)
           r == SubSteps_NoShrink(s1, prev, entry, t0, t1, j + ts, ts)
       IN  [ds |-> r.ds, steps |-> <<ts>> \o r.steps]
  ELSE [ds |-> s, steps |-> <<>>]

\* the sub-steps from t0 to t1: for (j = t0 + ts; j <= t1; j += ts); the
\* result is the state and the durations given to add_segment
RECURSIVE SubSteps(_, _, _, _, _, _, _)
SubSteps(s, prev, entry, t0, t1, j, ts) ==
  IF j <= t1
  THEN LET depth == interpolate(prev.depth, entry.depth, j - t0, t1 - t0)
           s1 == add_segment(s, depth_to_mbar(depth), ts)
           ts1 == IF (t1 - j < ts) /\ (j < t1) THEN t1 - j ELSE ts
           r == SubSteps(s1, prev, entry, t0, t1, j + ts1, ts1)
       IN  [ds |-> r.ds, steps |-> <<ts>> \o r.steps]
  ELSE [ds |-> s, steps |-> <<>>]

\* the body of the walk for entry l.i up to the ceiling and the VPM-B
\* bookkeeping; g1 and g2 are the gradients vpmb_next_gradient derives
WalkEntry(s, l, p, pr, g1, g2) ==
  LET entry == p.entry[l.i + 1]
      prev == p.entry[l.i]
      t0 == Min(prev.sec, entry.sec)
      t1 == Max(prev.sec, entry.sec)
      ts == IF t0 /= t1 /\ t1 - t0 < WALK_STEPSIZE
            THEN t1 - t0 ELSE WALK_STEPSIZE
      sub == SubSteps(s, prev, entry, t0, t1, t0 + ts, ts)
      s1 == sub.ds
      vpmb == pr.decoMode = "VPMB"
  IN  IF t0 = t1
      THEN [ds |-> s1, l |-> l, steps |-> sub.steps,
            entry |-> [entry EXCEPT !.ceiling = prev.ceiling]]
      ELSE
        LET s2 == IF vpmb /\ l.last_ceiling >= l.first_ceiling
                          /\ l.first_iteration
                  THEN LET sg == vpmb_start_gradient(
                                   nuclear_regeneration(s1, t1))
                       IN  IF ~l.first_iteration \/ pr.in_planner
                           THEN vpmb_next_gradient(sg, sg.deco_time, g1)
                           ELSE sg
                  ELSE s1
            ceiling == deco_allowed_depth(
                         tissue_tolerance_calc(s2, pr.decoMode),
                         surface_pressure, ~pr.calcceiling3m)
            current_ceiling ==
              IF pr.calcceiling3m
              THEN deco_allowed_depth(tissue_tolerance_calc(s2, pr.decoMode),
                                      surface_pressure, TRUE)
              ELSE ceiling
            deepest == /\ vpmb
                       /\ \/ current_ceiling >= l.first_ceiling
                          \/ /\ l.time_deep_ceiling = t0
                             /\ entry.depth = prev.depth
            s3 == IF deepest
                  THEN LET sc == [s2 EXCEPT !.first_ceiling_pressure =
                                     depth_to_mbar(current_ceiling)]
                       IN  IF l.first_iteration
                           THEN LET sg == vpmb_start_gradient(
                                            nuclear_regeneration(sc, t1))
                                    sd == IF ~pr.in_planner
                                          THEN [sg EXCEPT !.deco_time =
                                                  p.maxtime - t1 + 1800]
                                          ELSE sg
                                IN  vpmb_next_gradient(sd, sd.deco_time, g2)
                           ELSE sc
                  ELSE s2
            tdc == IF deepest THEN t1 ELSE l.time_deep_ceiling
            l1 == [l EXCEPT
                     !.current_ceiling = current_ceiling,
                     !.last_ceiling = current_ceiling,
                     !.time_deep_ceiling = tdc,
                     !.first_ceiling = IF deepest THEN current_ceiling ELSE @,
                     !.time_clear_ceiling =
                        IF ~vpmb THEN @
                        ELSE IF current_ceiling > 0 THEN 0
                        ELSE IF @ = 0 /\ t1 > tdc THEN t1 ELSE @]
        IN  [ds |-> s3, l |-> l1, steps |-> sub.steps,
             entry |-> [entry EXCEPT !.ceiling = ceiling]]

\* should we do more calculations?
MoreCalculations(l, p, pr) ==
  \/ /\ pr.calcndltts
     /\ ~pr.print_mode
     /\ (pr.decoMode /= "VPMB" \/ pr.in_planner \/ ~l.first_iteration)
  \/ (pr.decoMode = "VPMB" /\ ~pr.in_planner /\ l.i = p.nr - 1)

\* no throttle: every entry is due
Throttled_Never(l, p) == FALSE

\* only calculate ndl/tts on every 30 seconds
Throttled(l, p) ==
  /\ p.entry[l.i + 1].sec - l.last_ndl_tts_calc_time < NDL_TTS_INTERVAL
  /\ l.i /= p.nr - 1

\* the condition of the while loop without the cap of the iterations
KeepWalking_NoCap(l, s) ==
  Abs(l.prev_deco_time - s.deco_time) >= CONVERGED

\* the condition of the while loop
KeepWalking(l, s) ==
  /\ Abs(l.prev_deco_time - s.deco_time) >= CONVERGED
  /\ l.count_iteration < MAX_ITERATIONS

\* the mutex of the planner
lock_planner(g) == "solver"
unlock_planner(g) == "free"

(* ------------------------------ inputs -------------------------------- *)
DecoSampleTimes == {20, 45}
DecoDepths == {2000, 6000, 15000}
\* the dives: one sample or more, at increasing times
DecoSampleInputs ==
  {[k \in 1 .. Len(ts) |-> MkSample(ts[k][1], ts[k][2])] :
     ts \in {s \in SeqsUpTo(DecoSampleTimes \X DecoDepths, MaxDecoSamples) :
               /\ s /= <<>>
               /\ \A k \in 1 .. Len(s) - 1 : s[k][1] < s[k + 1][1]}}

PrefsInputs ==
  [decoMode : {"BUEHLMANN", "VPMB"}, in_planner : BOOLEAN,
   calcndltts : BOOLEAN, calcceiling3m : {FALSE}, print_mode : {FALSE}]

\* the states the planner publishes: a deco time and the pressure of the
\* first ceiling that goes with it
PlannerCeiling(deco_time) == ATM_MBAR + deco_time \div 2
PlannerDecoTimes == {600, 1200}
PlannerStates ==
  {[init_decompression EXCEPT !.deco_time = t,
                              !.first_ceiling_pressure = PlannerCeiling(t)] :
     t \in PlannerDecoTimes}

(* ------------------------------ actions ------------------------------- *)
InitDeco ==
  /\ \E samples \in DecoSampleInputs :
       /\ dc = [sample |-> samples, events |-> <<>>,
                 divemode |-> "OC", no_o2sensors |-> 0]
       /\ pi = populate_plot_entries(dc, calculate_max_limits_new(dc, 0))
  /\ dive = NoDive
  /\ loc = NoLoc
  /\ sacloc = NoSacLoc
  /\ prefs \in PrefsInputs
  /\ ds = init_decompression
  /\ planner_ds \in (IF prefs.in_planner THEN PlannerStates
                     ELSE {init_decompression})
  /\ gate = "free"
  /\ ppc = "idle"
  /\ dloc = [NoDloc EXCEPT !.pcd = "enter", !.prev_deco_time = PREV_DECO_TIME]
  /\ pc = "deco"

Others == <<dc, dive, loc, sacloc, prefs, pc>>

\* if (!in_planner()) ds->deco_time = 0;
DecoEnter ==
  /\ pc = "deco" /\ dloc.pcd = "enter"
  /\ IF ~prefs.in_planner
     THEN /\ ds' = [ds EXCEPT !.deco_time = 0]
          /\ dloc' = [dloc EXCEPT !.pcd = "lock"]
     ELSE /\ ds' = ds
          /\ dloc' = [dloc EXCEPT !.pcd = "read_deco_time"]
  /\ UNCHANGED <<pi, planner_ds, gate, ppc, Others>>

\* ds->deco_time = planner_ds->deco_time;
DecoReadDecoTime ==
  /\ pc = "deco" /\ dloc.pcd = "read_deco_time"
  /\ ds' = [ds EXCEPT !.deco_time = planner_ds.deco_time]
  /\ dloc' = [dloc EXCEPT !.pcd = "read_first_ceiling"]
  /\ UNCHANGED <<pi, planner_ds, gate, ppc, Others>>

\* ds->first_ceiling_pressure = planner_ds->first_ceiling_pressure;
DecoReadFirstCeiling ==
  /\ pc = "deco" /\ dloc.pcd = "read_first_ceiling"
  /\ ds' = [ds EXCEPT !.first_ceiling_pressure =
                         planner_ds.first_ceiling_pressure]
  /\ dloc' = [dloc EXCEPT !.pcd = "lock"]
  /\ UNCHANGED <<pi, planner_ds, gate, ppc, Others>>

\* lock_planner(); blocks while the planner holds the mutex
DecoLock ==
  /\ pc = "deco" /\ dloc.pcd = "lock"
  /\ gate = "free"
  /\ gate' = lock_planner(gate)
  /\ dloc' = [dloc EXCEPT !.pcd = "cache_initial", !.acquired = @ + 1]
  /\ UNCHANGED <<ds, pi, planner_ds, ppc, Others>>

\* if (decoMode() == VPMB) cache_deco_state(ds, &cache_data_initial);
DecoCacheInitial ==
  /\ pc = "deco" /\ dloc.pcd = "cache_initial"
  /\ dloc' = [dloc EXCEPT
                !.pcd = "test",
                !.cache_data_initial =
                   IF prefs.decoMode = "VPMB" THEN cache_deco_state(ds)
                   ELSE @]
  /\ UNCHANGED <<ds, pi, planner_ds, gate, ppc, Others>>

\* the test of the while loop and, when it holds, the head of its body
DecoLoopTest ==
  /\ pc = "deco" /\ dloc.pcd = "test"
  /\ IF KeepWalking(dloc, ds)
     THEN /\ dloc' = [dloc EXCEPT
                        !.pcd = "walk", !.i = 1, !.walks = @ + 1,
                        !.last_ndl_tts_calc_time = 0, !.first_ceiling = 0,
                        !.last_ceiling = 0, !.final_tts = 0,
                        !.time_clear_ceiling = 0]
          /\ ds' = IF prefs.decoMode = "VPMB"
                   THEN [ds EXCEPT !.first_ceiling_pressure = depth_to_mbar(0)]
                   ELSE ds
     ELSE /\ dloc' = [dloc EXCEPT !.pcd = "unlock"]
          /\ ds' = ds
  /\ UNCHANGED <<pi, planner_ds, gate, ppc, Others>>

\* the walk reaches entry i: sub-steps, ceiling, VPM-B bookkeeping
WalkAdvance ==
  /\ pc = "deco" /\ dloc.pcd = "walk"
  /\ dloc.i < pi.nr
  /\ \E g1, g2 \in Gradients :
       LET r == WalkEntry(ds, dloc, pi, prefs, g1, g2)
       IN  /\ ds' = r.ds
           /\ dloc' = [r.l EXCEPT !.pcd = "ndl", !.steps = r.steps]
           /\ pi' = [pi EXCEPT !.entry[dloc.i + 1] = r.entry]
  /\ UNCHANGED <<planner_ds, gate, ppc, Others>>

\* the decision about NDL and TTS of entry i: none, the values of the
\* previous entry, or a simulation on a checkpoint of ds
WalkDecide ==
  /\ pc = "deco" /\ dloc.pcd = "ndl"
  /\ IF MoreCalculations(dloc, pi, prefs)
     THEN IF Throttled(dloc, pi)
          THEN LET prev_entry == pi.entry[dloc.i]
               IN  /\ pi' = [pi EXCEPT
                        !.entry[dloc.i + 1].stoptime_calc =
                           prev_entry.stoptime_calc,
                        !.entry[dloc.i + 1].stopdepth_calc =
                           prev_entry.stopdepth_calc,
                        !.entry[dloc.i + 1].tts_calc = prev_entry.tts_calc,
                        !.entry[dloc.i + 1].ndl_calc = prev_entry.ndl_calc]
                   /\ dloc' = [dloc EXCEPT !.pcd = "walk", !.i = @ + 1]
          ELSE /\ pi' = pi
               /\ dloc' = [dloc EXCEPT
                             !.pcd = "simulate",
                             !.last_ndl_tts_calc_time = pi.entry[dloc.i + 1].sec,
                             !.cache_data = cache_deco_state(ds)]
     ELSE /\ pi' = pi
          /\ dloc' = [dloc EXCEPT !.pcd = "walk", !.i = @ + 1]
  /\ UNCHANGED <<ds, planner_ds, gate, ppc, Others>>

\* calculate_ndl_tts on ds itself
WalkSimulate ==
  /\ pc = "deco" /\ dloc.pcd = "simulate"
  /\ LET r == calculate_ndl_tts(ds, pi.entry[dloc.i + 1], prefs.decoMode)
     IN  /\ ds' = r.ds
         /\ pi' = [pi EXCEPT !.entry[dloc.i + 1] = r.entry]
         /\ dloc' = [dloc EXCEPT
                       !.pcd = "restore",
                       !.final_tts =
                          IF /\ prefs.decoMode = "VPMB"
                             /\ ~prefs.in_planner
                             /\ dloc.i = pi.nr - 1
                          THEN r.entry.tts_calc ELSE @]
  /\ UNCHANGED <<planner_ds, gate, ppc, Others>>

\* WalkRestore without the restore: the simulated state stays in ds
WalkRestore_NoRestore ==
  /\ pc = "deco" /\ dloc.pcd = "restore"
  /\ ds' = ds
  /\ dloc' = [dloc EXCEPT !.pcd = "walk", !.i = @ + 1, !.cache_data = <<>>]
  /\ UNCHANGED <<pi, planner_ds, gate, ppc, Others>>

\* restore_deco_state(cache_data, ds, decoMode() == VPMB); free(cache_data)
WalkRestore ==
  /\ pc = "deco" /\ dloc.pcd = "restore"
  /\ ds' = restore_deco_state(dloc.cache_data, ds, prefs.decoMode = "VPMB")
  /\ dloc' = [dloc EXCEPT !.pcd = "walk", !.i = @ + 1, !.cache_data = <<>>]
  /\ UNCHANGED <<pi, planner_ds, gate, ppc, Others>>

\* the end of a walk whose rollback takes the deco time along: the one
\* of the checkpoint comes back
WalkEndState_LoseDecoTime(s, l, pr, g) ==
  IF pr.decoMode = "VPMB" /\ ~pr.in_planner
  THEN LET sg == vpmb_next_gradient(s, s.deco_time, g)
       IN  [ds |-> restore_deco_state(l.cache_data_initial, sg, TRUE),
            l |-> [l EXCEPT !.prev_deco_time = s.deco_time,
                            !.final_tts = 0,
                            !.last_ndl_tts_calc_time = 0,
                            !.first_ceiling = 0,
                            !.first_iteration = FALSE,
                            !.count_iteration = @ + 1]]
  ELSE [ds |-> [s EXCEPT !.deco_time = 0],
        l |-> [l EXCEPT !.prev_deco_time = 0]]

\* the end of a walk: the next deco time and gradient for VPM-B outside
\* the planner, with ds rolled back to the initial checkpoint; otherwise
\* the values that end the loop
WalkEndState(s, l, pr, g) ==
  IF pr.decoMode = "VPMB" /\ ~pr.in_planner
  THEN LET this_deco_time ==
             IF l.final_tts > 0
             THEN l.last_ndl_tts_calc_time + l.final_tts - l.time_deep_ceiling
             ELSE IF l.time_clear_ceiling > 0
             THEN ROUND_UP(l.time_clear_ceiling - l.time_deep_ceiling + 20,
                           60) + 20
             ELSE s.deco_time
           sg == vpmb_next_gradient([s EXCEPT !.deco_time = this_deco_time],
                                    this_deco_time, g)
       IN  [ds |-> [restore_deco_state(l.cache_data_initial, sg, TRUE)
                      EXCEPT !.deco_time = this_deco_time],
            l |-> [l EXCEPT !.prev_deco_time = s.deco_time,
                            !.final_tts = 0,
                            !.last_ndl_tts_calc_time = 0,
                            !.first_ceiling = 0,
                            !.first_iteration = FALSE,
                            !.count_iteration = @ + 1]]
  ELSE [ds |-> [s EXCEPT !.deco_time = 0],
        l |-> [l EXCEPT !.prev_deco_time = 0]]

\* WalkEnd whose else branch leaves prev_deco_time alone
WalkEnd_KeepPrev ==
  /\ pc = "deco" /\ dloc.pcd = "walk"
  /\ dloc.i >= pi.nr
  /\ \E g \in Gradients :
       LET r == WalkEndState(ds, dloc, prefs, g)
       IN  /\ ds' = r.ds
           /\ dloc' = [r.l EXCEPT
                         !.pcd = "test",
                         !.prev_deco_time =
                            IF prefs.decoMode = "VPMB" /\ ~prefs.in_planner
                            THEN @ ELSE dloc.prev_deco_time]
  /\ UNCHANGED <<pi, planner_ds, gate, ppc, Others>>

WalkEnd ==
  /\ pc = "deco" /\ dloc.pcd = "walk"
  /\ dloc.i >= pi.nr
  /\ \E g \in Gradients :
       LET r == WalkEndState(ds, dloc, prefs, g)
       IN  /\ ds' = r.ds
           /\ dloc' = [r.l EXCEPT !.pcd = "test"]
  /\ UNCHANGED <<pi, planner_ds, gate, ppc, Others>>

\* DecoUnlock that returns without unlock_planner()
DecoUnlock_NoRelease ==
  /\ pc = "deco" /\ dloc.pcd = "unlock"
  /\ dloc' = [dloc EXCEPT !.pcd = "done", !.cache_data_initial = <<>>]
  /\ pc' = "deco_done"
  /\ UNCHANGED <<ds, pi, planner_ds, gate, ppc, dc, dive, loc, sacloc, prefs>>

\* free(cache_data_initial); unlock_planner();
DecoUnlock ==
  /\ pc = "deco" /\ dloc.pcd = "unlock"
  /\ gate' = unlock_planner(gate)
  /\ dloc' = [dloc EXCEPT !.pcd = "done", !.cache_data_initial = <<>>,
                          !.released = @ + 1]
  /\ pc' = "deco_done"
  /\ UNCHANGED <<ds, pi, planner_ds, ppc, dc, dive, loc, sacloc, prefs>>

(* the planner: while the planner is open it computes a plan in its own
   thread and publishes it in planner_ds, field by field, under the mutex *)
PlannerLock ==
  /\ prefs.in_planner /\ ppc = "idle"
  /\ gate = "free"
  /\ gate' = "planner"
  /\ ppc' = "write_deco_time"
  /\ UNCHANGED <<ds, pi, planner_ds, dloc, Others>>

PlannerWriteDecoTime ==
  /\ ppc = "write_deco_time"
  /\ \E t \in PlannerDecoTimes \ {planner_ds.deco_time} :
       planner_ds' = [planner_ds EXCEPT !.deco_time = t]
  /\ ppc' = "write_first_ceiling"
  /\ UNCHANGED <<ds, pi, gate, dloc, Others>>

PlannerWriteFirstCeiling ==
  /\ ppc = "write_first_ceiling"
  /\ planner_ds' = [planner_ds EXCEPT !.first_ceiling_pressure =
                       PlannerCeiling(planner_ds.deco_time)]
  /\ ppc' = "unlock"
  /\ UNCHANGED <<ds, pi, gate, dloc, Others>>

PlannerUnlock ==
  /\ ppc = "unlock"
  /\ gate' = "free"
  /\ ppc' = "done"
  /\ UNCHANGED <<ds, pi, planner_ds, dloc, Others>>

NextDeco ==
  \/ DecoEnter \/ DecoReadDecoTime \/ DecoReadFirstCeiling \/ DecoLock
  \/ DecoCacheInitial \/ DecoLoopTest
  \/ WalkAdvance \/ WalkDecide \/ WalkSimulate \/ WalkRestore \/ WalkEnd
  \/ DecoUnlock
  \/ PlannerLock \/ PlannerWriteDecoTime \/ PlannerWriteFirstCeiling
  \/ PlannerUnlock

SpecDeco == InitDeco /\ [][NextDeco]_vars

C6_WalksCapped ==
  [][/\ dloc'.walks <= MAX_ITERATIONS
     /\ dloc'.walks > dloc.walks
           => /\ Abs(dloc.prev_deco_time - ds.deco_time) >= CONVERGED
              /\ dloc.walks < MAX_ITERATIONS
     /\ (dloc.pcd = "test" /\ dloc.walks >= MAX_ITERATIONS)
           => (ds' = ds /\ dloc'.pcd \in {"test", "unlock"})
     /\ dloc.pcd = "unlock" => ds' = ds]_vars

\* the cap ended the loop while the estimates still differed
C6_Witness ==
  /\ dloc.pcd = "done"
  /\ dloc.walks = MAX_ITERATIONS
  /\ Abs(dloc.prev_deco_time - ds.deco_time) >= CONVERGED

C9_GateOnce ==
  /\ dloc.acquired <= 1
  /\ dloc.released <= dloc.acquired
  /\ (gate = "solver") = (dloc.acquired = 1 /\ dloc.released = 0)
  /\ dloc.pcd \in {"cache_initial", "test", "walk", "ndl", "simulate",
                   "restore", "unlock"} => gate = "solver"
  /\ dloc.released = 1 => dloc.pcd = "done"
  /\ dloc.pcd = "done" => (dloc.acquired = 1 /\ dloc.released = 1)

\* the solver gave the mutex back after several walks
C9_Witness ==
  /\ dloc.pcd = "done"
  /\ dloc.walks > 1
  /\ dloc.acquired = 1 /\ dloc.released = 1
  /\ gate /= "solver"

\* C10 as claimed: the solver reads deco_time and first_ceiling_pressure
\* of planner_ds only while it holds the mutex.
C10_ReadsUnderGate ==
  [][(dloc.pcd \in {"read_deco_time", "read_first_ceiling"}
        /\ dloc'.pcd /= dloc.pcd) => gate = "solver"]_vars

\* the pair the solver took from planner_ds is one the planner published
C10_ConsistentRead ==
  (prefs.in_planner /\ dloc.pcd = "lock") =>
     ds.first_ceiling_pressure = PlannerCeiling(ds.deco_time)

(* ============================ the O2 pressures ======================== *)
MaxO2Samples == 2

\* diff_limit of calculate_ccr_po2
DIFF_LIMIT == 100
\* the sensors of a plot_data entry
O2Sensors == 1 .. 3

\* the po2 of an entry from the valid readings of the first
\* dc->no_o2sensors sensors: none, one, the mean of two, or a vote of three
calculate_ccr_po2(entry, d) ==
  LET valid == {j \in O2Sensors : j <= d.no_o2sensors /\ entry.o2sensor[j] /= 0}
      np == Cardinality(valid)
      sump == SumOver(valid, [j \in valid |-> entry.o2sensor[j]])
      minp == SetMin({entry.o2sensor[j] : j \in valid})
      maxp == SetMax({entry.o2sensor[j] : j \in valid})
  IN  CASE np = 0 -> entry.o2pressure
        [] np = 1 -> sump
        [] np = 2 -> CDiv(sump, 2)
        [] np = 3 ->
             IF 2 * maxp - sump + minp < DIFF_LIMIT
             THEN IF 2 * minp - sump + maxp /= 0
                  THEN CDiv(sump, 3)
                  ELSE CDiv(sump - minp, 2)
             ELSE IF 2 * minp - sump + maxp /= 0
                  THEN CDiv(sump - maxp, 2)
                  ELSE CDiv(sump, 3)
        [] OTHER -> 0

\* the body of the loop of fill_o2_values without the MIN with the
\* ambient pressure
FillO2Entry_NoClamp(entry, first, last_sensor, d) ==
  IF Rebreather(d)
  THEN LET sensors ==
             [j \in O2Sensors |->
                IF ~first /\ j <= d.no_o2sensors /\ entry.o2sensor[j] = 0
                THEN last_sensor[j] ELSE entry.o2sensor[j]]
           e1 == [entry EXCEPT !.o2sensor = sensors]
       IN  [entry |-> [e1 EXCEPT !.o2pressure = calculate_ccr_po2(e1, d)],
            last_sensor |-> sensors]
  ELSE [entry |-> [entry EXCEPT !.o2pressure = 0],
        last_sensor |-> last_sensor]

\* the body of the loop of fill_o2_values for one entry: missing readings
\* take the last known value of the sensor, the po2 is capped by the
\* ambient pressure; for other dive modes the po2 is 0
FillO2Entry(entry, first, last_sensor, d) ==
  IF Rebreather(d)
  THEN LET sensors ==
             [j \in O2Sensors |->
                IF ~first /\ j <= d.no_o2sensors /\ entry.o2sensor[j] = 0
                THEN last_sensor[j] ELSE entry.o2sensor[j]]
           e1 == [entry EXCEPT !.o2sensor = sensors]
       IN  [entry |-> [e1 EXCEPT !.o2pressure =
                          Min(calculate_ccr_po2(e1, d),
                              depth_to_mbar(e1.depth))],
            last_sensor |-> sensors]
  ELSE [entry |-> [entry EXCEPT !.o2pressure = 0],
        last_sensor |-> last_sensor]

\* for (i = 0; i < pi->nr; i++) from entry i on
RECURSIVE FillO2From(_, _, _, _)
FillO2From(p, i, last_sensor, d) ==
  IF i < p.nr
  THEN LET r == FillO2Entry(p.entry[i + 1], i = 0, last_sensor, d)
       IN  FillO2From([p EXCEPT !.entry[i + 1] = r.entry], i + 1,
                      r.last_sensor, d)
  ELSE p

fill_o2_values(d, p) == FillO2From(p, 0, <<0, 0, 0>>, d)

(* ------------------------------ inputs -------------------------------- *)
O2SampleTimes == {12, 25}
O2Setpoints == {0, 1300}
O2Readings ==
  {<<0, 0, 0>>, <<1000, 0, 0>>, <<1000, 1050, 0>>, <<1000, 1020, 1050>>,
   <<1000, 1000, 1050>>, <<700, 1000, 1050>>, <<1000, 1050, 1300>>,
   <<1300, 1000, 1000>>, <<1600, 1650, 1620>>}

MkO2Sample(t, depth, setpoint, readings) ==
  [MkSample(t, depth) EXCEPT !.setpoint = setpoint, !.o2sensor = readings]

O2SampleInputs ==
  {[k \in 1 .. Len(ts) |-> MkO2Sample(ts[k][1], ts[k][2], ts[k][3], ts[k][4])] :
     ts \in {s \in SeqsUpTo(O2SampleTimes \X SampleDepths \X O2Setpoints
                              \X O2Readings, MaxO2Samples) :
               /\ s /= <<>>
               /\ \A k \in 1 .. Len(s) - 1 : s[k][1] < s[k + 1][1]}}

(* ------------------------------ actions ------------------------------- *)
\* create_plot_info_new up to fill_o2_values, for a device with no
\* setpoint events
InitO2 ==
  /\ \E s \in O2SampleInputs, mode \in {"OC", "CCR", "PSCR"}, n \in 0 .. 3 :
        dc = [sample |-> s, events |-> <<>>,
              divemode |-> mode, no_o2sensors |-> n]
  /\ pi = populate_plot_entries(dc, calculate_max_limits_new(dc, 0))
  /\ dive = NoDive
  /\ loc = NoLoc
  /\ sacloc = NoSacLoc
  /\ DecoIdle
  /\ pc = "o2"

FillO2Values ==
  /\ pc = "o2"
  /\ pi' = fill_o2_values(dc, pi)
  /\ pc' = "o2_done"
  /\ UNCHANGED <<dc, dive, loc, sacloc, decovars>>

NextO2 == FillO2Values

SpecO2 == InitO2 /\ [][NextO2]_vars

(* ===================== claims about the O2 pressures ================== *)
\* the readings of entry k in ascending order
Lowest(k) == SetMin({pi.entry[k].o2sensor[j] : j \in O2Sensors})
Highest(k) == SetMax({pi.entry[k].o2sensor[j] : j \in O2Sensors})
Middle(k) ==
  pi.entry[k].o2sensor[1] + pi.entry[k].o2sensor[2] + pi.entry[k].o2sensor[3]
    - Lowest(k) - Highest(k)

ThreeValid(k) ==
  /\ dc.no_o2sensors = 3
  /\ \A j \in O2Sensors : pi.entry[k].o2sensor[j] /= 0

\* C13 as claimed: with three valid readings the po2 is the mean of the
\* three when the highest is within 100 mbar of the middle one and the
\* middle one within 100 mbar of the lowest; when only the highest is
\* further off it is the mean of the two lower ones, when only the lowest
\* is further off the mean of the two higher ones.
C13_Voting ==
  pc = "o2_done" =>
    \A k \in Entries :
       ThreeValid(k) =>
         LET po2 == calculate_ccr_po2(pi.entry[k], dc)
             up == Highest(k) - Middle(k)
             low == Middle(k) - Lowest(k)
         IN  /\ (up < DIFF_LIMIT /\ low < DIFF_LIMIT)
                   => po2 = CDiv(Lowest(k) + Middle(k) + Highest(k), 3)
             /\ (up > DIFF_LIMIT /\ low < DIFF_LIMIT)
                   => po2 = CDiv(Lowest(k) + Middle(k), 2)
             /\ (up < DIFF_LIMIT /\ low > DIFF_LIMIT)
                   => po2 = CDiv(Middle(k) + Highest(k), 2)

\* C14: after fill_o2_values the po2 of every entry is at most the
\* ambient pressure at its depth for a closed-circuit device and for a
\* passive semi-closed one with sensors, and 0 for every other device.
C14_PO2Capped ==
  pc = "o2_done" =>
    \A k \in Entries :
       IF dc.divemode = "CCR" \/ (dc.divemode = "PSCR" /\ dc.no_o2sensors > 0)
       THEN pi.entry[k].o2pressure <= depth_to_mbar(pi.entry[k].depth)
       ELSE pi.entry[k].o2pressure = 0

\* the cap cut the po2 of an entry of a closed-circuit device, and the
\* sensors of an entry read less than the ambient pressure
C14_Witness ==
  /\ pc = "o2_done"
  /\ dc.divemode = "CCR"
  /\ \E k \in Entries :
       /\ calculate_ccr_po2(pi.entry[k], dc) > depth_to_mbar(pi.entry[k].depth)
       /\ pi.entry[k].o2pressure = depth_to_mbar(pi.entry[k].depth)
  /\ \E k \in Entries :
       /\ pi.entry[k].o2pressure > 0
       /\ pi.entry[k].o2pressure < depth_to_mbar(pi.entry[k].depth)

(* ===================== gas pressure reconstructor ===================== *)
MaxGasEvents == 2

INT_MAX == 2147483647

\* add_plot_pressure with the scan for the entry left out: the pressure
\* goes onto the first entry of the series whatever the time is
add_plot_pressure_NoScan(p, time, cyl, pr) ==
  IF p.nr <= 0 THEN p
  ELSE [p EXCEPT !.entry[1].pressure[cyl] = pr]

\* add_plot_pressure: the first entry at or after the time gets the
\* pressure; the loop leaves "entry" on the last entry when there is none
add_plot_pressure(p, time, cyl, pr) ==
  IF p.nr <= 0 THEN p
  ELSE LET hits == {i \in 1 .. p.nr : p.entry[i].sec >= time}
           k == IF hits = {} THEN p.nr ELSE SetMin(hits)
       IN  [p EXCEPT !.entry[k].pressure[cyl] = pr]

\* explicit_first_cylinder of dive.c: the cylinder of a gas change at the
\* very start of the dive, else the first cylinder
explicit_first_cylinder(dv, d) ==
  LET ch == GasChanges(d)
  IN  IF ch /= <<>> /\ (ch[1].time <= 1
                        \/ (d.sample /= <<>> /\ ch[1].time = d.sample[1].time))
      THEN ch[1].cyl ELSE 0

\* has_gaschange_event of dive.c, for the other devices of the dive: the
\* cylinders their gas changes name
has_gaschange_event(dv, i) == i \in dv.secondary

\* the state of the locals before the loop over the gas changes
GasLocals(dv, d) ==
  LET prev == explicit_first_cylinder(dv, d)
  IN  [prev |-> prev,
       seen |-> [i \in Cyls |-> IF i = prev THEN 1 ELSE 0],
       first |-> [i \in Cyls |-> 0],
       last |-> [i \in Cyls |-> INT_MAX]]

\* one iteration of the loop over the gas changes
GasChangeStep(g, ev) ==
  IF ev.cyl < 0 THEN g
  ELSE LET cyl == ev.cyl
           sec == ev.time
           last1 == [g.last EXCEPT ![g.prev] = sec]
       IN  [prev |-> cyl,
            seen |-> [g.seen EXCEPT ![cyl] = 1],
            first |-> IF g.seen[cyl] = 0 THEN [g.first EXCEPT ![cyl] = sec]
                      ELSE g.first,
            last |-> [last1 EXCEPT ![cyl] = sec]]

RECURSIVE GasChangeLoop(_, _)
GasChangeLoop(g, evs) ==
  IF evs = <<>> THEN [g EXCEPT !.last[g.prev] = INT_MAX]
  ELSE GasChangeLoop(GasChangeStep(g, Head(evs)), Tail(evs))

\* the marking that takes every cylinder the device has seen, whatever
\* its pressures are
MarkSeen_AnyPressure(dv, seen) ==
  [i \in Cyls |->
     IF seen[i] /= 0 THEN seen[i]
     ELSE IF has_gaschange_event(dv, i) THEN -1 ELSE 0]

\* the "seen[]" array after the cylinders of no interest are marked -1
MarkSeen(dv, seen) ==
  [i \in Cyls |->
     LET start == dv.cylinder[i].start
         end == dv.cylinder[i].end
     IN  IF start = 0 \/ end = 0 \/ start = end THEN -1
         ELSE IF seen[i] /= 0 THEN seen[i]
         ELSE IF has_gaschange_event(dv, i) THEN -1 ELSE 0]

\* the windows and the marks setup_gas_sensor_pressure works with
GasWindows(dv, d) ==
  LET g == GasChangeLoop(GasLocals(dv, d),
                         SelectSeq(d.events, LAMBDA e : e.name = "gaschange"))
  IN  [g EXCEPT !.seen = MarkSeen(dv, g.seen)]

\* the loop that writes the two pressures of the cylinders i .. MaxCylinders-1
RECURSIVE WritePressures(_, _, _, _)
WritePressures(dv, g, p, i) ==
  IF i >= MaxCylinders THEN p
  ELSE IF g.seen[i] >= 0
  THEN WritePressures(dv, g,
         add_plot_pressure(
           add_plot_pressure(p, g.first[i], i, dv.cylinder[i].start),
           g.last[i], i, dv.cylinder[i].end),
         i + 1)
  ELSE WritePressures(dv, g, p, i + 1)

setup_gas_sensor_pressure(dv, d, p) == WritePressures(dv, GasWindows(dv, d), p, 0)

(* ------------------------------ inputs -------------------------------- *)
GasSampleInputs == {<<MkSample(10, 6000)>>, <<MkSample(20, 6000)>>,
                    <<MkSample(10, 6000), MkSample(20, 6000)>>}
GasEventTimes == {0, 10, 30}
\* the start and the end pressure of a cylinder: no end pressure, both,
\* both and equal
GasPressures == {<<200000, 0>>, <<200000, 50000>>, <<200000, 200000>>}

GasEventInputs ==
  {[k \in 1 .. Len(es) |-> MkGasChange(es[k][1], es[k][2])] :
     es \in {s \in SeqsUpTo(GasEventTimes \X Cyls, MaxGasEvents) :
               \A k \in 1 .. Len(s) - 1 : s[k][1] <= s[k + 1][1]}}

GasDiveInputs ==
  {[cylinder |-> [c \in Cyls |->
       [AirCylinder EXCEPT !.start = pr[c][1], !.end = pr[c][2]]],
    secondary |-> sec] :
     pr \in [Cyls -> GasPressures], sec \in {{}, {MaxCylinders - 1}}}

(* ------------------------------ actions ------------------------------- *)
\* create_plot_info_new up to setup_gas_sensor_pressure, for samples with
\* no pressure sensor
InitGas ==
  /\ \E s \in GasSampleInputs, e \in GasEventInputs :
        dc = [sample |-> s, events |-> e,
              divemode |-> "OC", no_o2sensors |-> 0]
  /\ dive \in GasDiveInputs
  /\ pi = populate_plot_entries(dc, calculate_max_limits_new(dc, 0))
  /\ loc = NoLoc
  /\ sacloc = NoSacLoc
  /\ DecoIdle
  /\ pc = "gas"

SetupGasSensorPressure ==
  /\ pc = "gas"
  /\ pi' = setup_gas_sensor_pressure(dive, dc, pi)
  /\ pc' = "gas_done"
  /\ UNCHANGED <<dc, dive, loc, sacloc, decovars>>

NextGas == SetupGasSensorPressure

SpecGas == InitGas /\ [][NextGas]_vars

(* ================= claims about the reconstructed pressures =========== *)
\* the cylinders the gas changes of the device name
Referenced == {GasChanges(dc)[k].cyl : k \in 1 .. Len(GasChanges(dc))}

\* the cylinder in use when the dive begins
InitialCylinder == explicit_first_cylinder(dive, dc)

\* cylinder c has a start and an end pressure, and they differ
HasPressures(c) ==
  /\ dive.cylinder[c].start /= 0
  /\ dive.cylinder[c].end /= 0
  /\ dive.cylinder[c].start /= dive.cylinder[c].end

\* the entries whose pressure of cylinder c is one the step wrote
Synthesized(c) == {k \in 1 .. pi.nr : pi.entry[k].pressure[c] /= 0}

\* C15: setup_gas_sensor_pressure writes no pressure for a cylinder that no
\* gas change names and whose start pressure equals its end pressure or
\* lacks either; every cylinder that is the initial one or the target of a
\* gas change of the device, with distinct non-zero start and end
\* pressures, is interesting: it gets its pressures written.
C15_Interesting ==
  pc = "gas_done" =>
    \A c \in Cyls :
       /\ (c \notin Referenced /\ ~HasPressures(c)) => Synthesized(c) = {}
       /\ ((c = InitialCylinder \/ c \in Referenced) /\ HasPressures(c))
            => /\ GasWindows(dive, dc).seen[c] >= 0
               /\ Synthesized(c) /= {}

\* a single switch between two cylinders that have pressures: both are
\* interesting
C15_Witness ==
  /\ pc = "gas_done"
  /\ Len(dc.events) = 1
  /\ dc.events[1].time = 10
  /\ dc.events[1].cyl = 1
  /\ InitialCylinder = 0
  /\ \A c \in Cyls : HasPressures(c) /\ Synthesized(c) /= {}
  /\ MaxCylinders >= 2

\* the cylinder in use before the gas change k of the device
UsedBefore(k) == IF k = 1 THEN InitialCylinder ELSE GasChanges(dc)[k - 1].cyl

\* the cylinder in use when the dive ends
UsedAtEnd ==
  IF GasChanges(dc) = <<>> THEN InitialCylinder
  ELSE GasChanges(dc)[Len(GasChanges(dc))].cyl

\* the time cylinder c comes into use: the start of the dive for the
\* initial cylinder, else the first gas change to it
FirstUse(c) ==
  IF c = InitialCylinder THEN 0
  ELSE SetMin({GasChanges(dc)[k].time :
                 k \in {j \in 1 .. Len(GasChanges(dc)) : GasChanges(dc)[j].cyl = c}})

\* the time of the last gas change made while cylinder c was in use
LastUse(c) ==
  SetMax({GasChanges(dc)[k].time :
            k \in {j \in 1 .. Len(GasChanges(dc)) : UsedBefore(j) = c}})

\* the first entry at or after time t, 0 when there is none
FirstAtOrAfter(t) ==
  IF \E k \in 1 .. pi.nr : pi.entry[k].sec >= t
  THEN SetMin({k \in 1 .. pi.nr : pi.entry[k].sec >= t}) ELSE 0

LastRecordedTime == SetMax({dc.sample[k].time : k \in 1 .. Len(dc.sample)})

\* the cylinders the device used that have pressures to write
Used(c) == (c = InitialCylinder \/ c \in Referenced) /\ HasPressures(c)

\* C16 as claimed: the start pressure of an interesting cylinder is on the
\* first entry at or after its first-use time and its end pressure on the
\* first entry at or after its last-use time; a cylinder in use when the
\* dive ends has its end pressure on an entry at or after the last
\* recorded time; no write lands outside the series.
C16_AnchorsWritten ==
  pc = "gas_done" =>
    /\ Len(pi.entry) = Len(populate_plot_entries(dc, pi.maxtime).entry)
    /\ \A c \in Cyls : Used(c) =>
         /\ FirstAtOrAfter(FirstUse(c)) /= 0
         /\ pi.entry[FirstAtOrAfter(FirstUse(c))].pressure[c] = dive.cylinder[c].start
         /\ IF c = UsedAtEnd
            THEN \E k \in 1 .. pi.nr :
                    /\ pi.entry[k].sec >= LastRecordedTime
                    /\ pi.entry[k].pressure[c] = dive.cylinder[c].end
            ELSE /\ FirstAtOrAfter(LastUse(c)) /= 0
                 /\ pi.entry[FirstAtOrAfter(LastUse(c))].pressure[c]
                      = dive.cylinder[c].end

\* the entry the end pressure of cylinder c belongs on
EndEntry(c) ==
  IF c = UsedAtEnd THEN pi.nr ELSE FirstAtOrAfter(LastUse(c))

\* C16, amended: as claimed, but the start pressure is on its entry only
\* when the end pressure does not go onto the same entry: both writes use
\* the one slot the entry has for the cylinder, and the end pressure, the
\* later write, wins.
C16_AnchorsUnlessSameEntry ==
  pc = "gas_done" =>
    /\ Len(pi.entry) = Len(populate_plot_entries(dc, pi.maxtime).entry)
    /\ \A c \in Cyls : Used(c) =>
         /\ FirstAtOrAfter(FirstUse(c)) /= 0
         /\ EndEntry(c) /= 0
         /\ pi.entry[EndEntry(c)].sec >= (IF c = UsedAtEnd THEN LastRecordedTime
                                          ELSE LastUse(c))
         /\ pi.entry[EndEntry(c)].pressure[c] = dive.cylinder[c].end
         /\ FirstAtOrAfter(FirstUse(c)) /= EndEntry(c)
              => pi.entry[FirstAtOrAfter(FirstUse(c))].pressure[c]
                   = dive.cylinder[c].start
         /\ Synthesized(c) \subseteq {FirstAtOrAfter(FirstUse(c)), EndEntry(c)}

\* a cylinder used from a switch at 10 s to the end of the dive: its
\* start pressure is on the entry at 10 s, its end pressure on the last
\* entry
C16_Witness ==
  /\ pc = "gas_done"
  /\ InitialCylinder = 0
  /\ Len(dc.events) = 1
  /\ dc.events[1].time = 10
  /\ dc.events[1].cyl = 1
  /\ Used(1)
  /\ pi.entry[FirstAtOrAfter(10)].sec = 10
  /\ pi.entry[FirstAtOrAfter(10)].pressure[1] = dive.cylinder[1].start
  /\ pi.entry[pi.nr].pressure[1] = dive.cylinder[1].end
  /\ Used(0)
  /\ pi.entry[1].pressure[0] = dive.cylinder[0].start
  /\ pi.entry[FirstAtOrAfter(10)].pressure[0] = dive.cylinder[0].end

(* ================== the walk over an arbitrary series ================= *)
MaxWalkEntries == 3

\* the times and depths of the entries of a series handed to
\* calculate_deco_information: in any order, the function checks none
WalkTimes == {0, 7, 25, 45}
WalkDepths == {3000, 9000}

MkEntry(t, d) == [ZeroEntry EXCEPT !.sec = t, !.depth = d, !.kind = "sample"]

WalkSeries ==
  {[k \in 1 .. Len(ts) |-> MkEntry(ts[k][1], ts[k][2])] :
     ts \in {s \in SeqsUpTo(WalkTimes \X WalkDepths, MaxWalkEntries) :
               Len(s) >= 2}}

\* calculate_deco_information is entered with a series of its caller, with
\* the Buehlmann model and no NDL or TTS asked for
InitWalk ==
  /\ \E e \in WalkSeries :
        pi = [entry |-> e, nr |-> Len(e),
              maxtime |-> SetMax({e[k].sec : k \in 1 .. Len(e)})]
  /\ dc = [sample |-> <<>>, events |-> <<>>,
           divemode |-> "OC", no_o2sensors |-> 0]
  /\ dive = NoDive
  /\ loc = NoLoc
  /\ sacloc = NoSacLoc
  /\ prefs = NoPrefs
  /\ ds = init_decompression
  /\ planner_ds = init_decompression
  /\ gate = "free"
  /\ ppc = "idle"
  /\ dloc = [NoDloc EXCEPT !.pcd = "enter", !.prev_deco_time = PREV_DECO_TIME]
  /\ pc = "deco"

NextWalk ==
  \/ DecoEnter \/ DecoLock \/ DecoCacheInitial \/ DecoLoopTest
  \/ WalkAdvance \/ WalkDecide \/ WalkEnd \/ DecoUnlock

SpecWalk == InitWalk /\ [][NextWalk]_vars

(* ======================= claims about the sub-steps =================== *)
RECURSIVE SeqSum(_)
SeqSum(s) == IF s = <<>> THEN 0 ELSE Head(s) + SeqSum(Tail(s))

\* the pair of entries the walk has just loaded the tissues for
WalkedPrev == pi.entry[dloc.i]
WalkedEntry == pi.entry[dloc.i + 1]
WalkedT0 == Min(WalkedPrev.sec, WalkedEntry.sec)
WalkedT1 == Max(WalkedPrev.sec, WalkedEntry.sec)

\* C17: for each pair of consecutive entries with the times t0 <= t1 (after
\* the swap) every sub-step lasts more than 0 s and at most 20 s and the
\* sub-steps add up to t1 - t0; with t0 = t1 there is no sub-step and the
\* ceiling is the one of the previous entry; a walk ends only behind the
\* last entry, whatever the order of the times is.
C17_SubSteps ==
  /\ dloc.pcd = "ndl" =>
       /\ \A k \in 1 .. Len(dloc.steps) :
             dloc.steps[k] > 0 /\ dloc.steps[k] <= WALK_STEPSIZE
       /\ SeqSum(dloc.steps) = WalkedT1 - WalkedT0
       /\ WalkedT0 = WalkedT1 =>
            /\ dloc.steps = <<>>
            /\ WalkedEntry.ceiling = WalkedPrev.ceiling
  /\ (dloc.walks >= 1 /\ dloc.pcd \in {"test", "unlock", "done"}) =>
       dloc.i = pi.nr

\* a walk that ended behind a pair 45 s, 7 s: the 38 s between them were
\* loaded in two sub-steps
C17_Witness ==
  /\ dloc.pcd = "test"
  /\ dloc.walks = 1
  /\ dloc.i = pi.nr
  /\ pi.entry[pi.nr - 1].sec = 45
  /\ pi.entry[pi.nr].sec = 7
  /\ dloc.steps = <<20, 18>>

(* ================= claims about the NDL and TTS cadence =============== *)
\* the walk stands on the last entry of the series
OnFinalEntry == dloc.i = pi.nr - 1

\* the step is the decision of the walk about NDL and TTS of entry i
Decides == dloc.pcd = "ndl" /\ dloc' /= dloc

\* the decision is to run the simulation: not before 30 s have passed
\* since the entry of the last run, the final entry excepted
RunsThrottled ==
  (Decides /\ dloc'.pcd = "simulate") =>
     /\ dloc'.last_ndl_tts_calc_time = pi.entry[dloc.i + 1].sec
     /\ \/ pi.entry[dloc.i + 1].sec - dloc.last_ndl_tts_calc_time
             >= NDL_TTS_INTERVAL
        \/ OnFinalEntry

\* the decision is to skip the simulation: the values are the ones of
\* the entry before
SkipCopies ==
  (Decides /\ dloc'.pcd = "walk") =>
     LET e == pi'.entry[dloc.i + 1]
         prev_entry == pi.entry[dloc.i]
     IN  /\ e.stoptime_calc = prev_entry.stoptime_calc
         /\ e.stopdepth_calc = prev_entry.stopdepth_calc
         /\ e.tts_calc = prev_entry.tts_calc
         /\ e.ndl_calc = prev_entry.ndl_calc

\* C18 as claimed: in one walk the simulation runs at most once per 30 s
\* of entry time, the final entry excepted, and it always runs on the
\* final entry; a skipped entry has the stop time, stop depth, TTS and NDL
\* of the entry before it.
C18_AlwaysOnFinal ==
  [][/\ RunsThrottled
     /\ SkipCopies
     /\ (Decides /\ OnFinalEntry) => dloc'.pcd = "simulate"]_vars

\* NDL and TTS are asked for, or VPM-B needs the TTS of the final entry
NdlTtsWanted ==
  \/ prefs.calcndltts /\ ~prefs.print_mode
  \/ prefs.decoMode = "VPMB" /\ ~prefs.in_planner

\* C18, amended: the simulation runs on the final entry exactly when NDL
\* and TTS are asked for (and not in print mode) or the model is VPM-B
\* outside the planner, and on no entry otherwise; the cadence of 30 s
\* and the copy on a skipped entry are as claimed.
C18_OnFinalWhenWanted ==
  [][/\ RunsThrottled
     /\ SkipCopies
     /\ (Decides /\ OnFinalEntry) => (dloc'.pcd = "simulate" <=> NdlTtsWanted)
     /\ (Decides /\ ~NdlTtsWanted) => dloc'.pcd = "walk"]_vars

\* the simulation has run on the final entry, less than 30 s after the
\* last run, and the entry before the final one was skipped and has the
\* values of that run
C18_Witness ==
  /\ dloc.pcd = "restore"
  /\ OnFinalEntry
  /\ prefs.calcndltts
  /\ \E k \in 2 .. pi.nr - 1 :
        /\ pi.entry[k].sec >= NDL_TTS_INTERVAL
        /\ pi.entry[pi.nr].sec - pi.entry[k].sec < NDL_TTS_INTERVAL
        /\ pi.entry[k].tts_calc > 0
        /\ pi.entry[pi.nr - 1].tts_calc = pi.entry[k].tts_calc
        /\ pi.entry[pi.nr - 1].sec > pi.entry[k].sec

(* =================== claims about the rollback of VPM-B =============== *)
\* the deco time the walk that ends has found
ThisDecoTime ==
  IF dloc.final_tts > 0
  THEN dloc.last_ndl_tts_calc_time + dloc.final_tts - dloc.time_deep_ceiling
  ELSE IF dloc.time_clear_ceiling > 0
  THEN ROUND_UP(dloc.time_clear_ceiling - dloc.time_deep_ceiling + 20, 60) + 20
  ELSE ds.deco_time

VpmbOutsidePlanner == prefs.decoMode = "VPMB" /\ ~prefs.in_planner

\* the step ends a walk / begins one
EndsWalk == dloc.pcd = "walk" /\ dloc'.pcd = "test"
BeginsWalk == dloc.pcd = "test" /\ dloc'.pcd = "walk"

\* C19: for VPM-B outside the planner the end of every walk puts the
\* tissues back to the checkpoint taken before the first walk, so every
\* walk begins with the same saturations; the deco time the walk has found
\* is in the state after the rollback, and the convergence test that
\* follows compares it with the deco time before it.
C19_RollbackKeepsDecoTime ==
  [][VpmbOutsidePlanner =>
       /\ EndsWalk =>
            /\ dloc.cache_data_initial /= <<>>
            /\ ds'.tissue = dloc.cache_data_initial[1].tissue
            /\ ds'.deco_time = ThisDecoTime
            /\ dloc'.prev_deco_time = ds.deco_time
            /\ dloc'.cache_data_initial = dloc.cache_data_initial
       /\ BeginsWalk =>
            /\ ds'.tissue = dloc.cache_data_initial[1].tissue
            /\ ds'.tissue = init_decompression.tissue
            /\ Abs(dloc.prev_deco_time - ds.deco_time) >= CONVERGED]_vars

\* a second walk has ended: the tissues are the ones of the checkpoint, the
\* deco time is a new one
C19_Witness ==
  /\ VpmbOutsidePlanner
  /\ dloc.pcd = "test"
  /\ dloc.walks = 2
  /\ ds.tissue = dloc.cache_data_initial[1].tissue
  /\ ds.deco_time > 0
  /\ ds.deco_time /= dloc.cache_data_initial[1].deco_time
  /\ ds.deco_time /= dloc.prev_deco_time

(* ================= claims about the shallow entries =================== *)
\* the step is calculate_ndl_tts on entry i
Simulates == dloc.pcd = "simulate" /\ dloc'.pcd = "restore"

\* C20 as claimed: for an entry shallower than 3000 mm with no ceiling,
\* calculate_ndl_tts adds no segment to the tissue state and the
\* recalculated NDL of the entry is the cap of 7200 s.
C20_ShallowNdlCapped ==
  [][(/\ Simulates
      /\ pi.entry[dloc.i + 1].depth < 3000
      /\ NextStop(ds, prefs.decoMode) = 0) =>
        /\ ds' = ds
        /\ pi'.entry[dloc.i + 1].ndl_calc = MAX_PROFILE_DECO]_vars

(* ============== calculate_ndl_tts, one pass of a loop a step ========== *)
\* no loop of the simulation is followed beyond this many seconds of NDL
\* or TTS
MaxSimTime == 8000

\* the tissue pressures, depths and recalculated NDLs (0 of calloc, the
\* ones of an earlier walk) an entry comes to the simulation with
NdlTissues == {ATM_MBAR, 1613, 2513}
NdlDepths == {2000, 6000, 15000}
NdlPriors == {0, 60, MAX_PROFILE_DECO}

\* the simulation as the loops see it
Sim ==
  [ds |-> ds, entry |-> pi.entry[1], ascent_depth |-> dloc.ascent_depth,
   next_stop |-> dloc.next_stop, break |-> dloc.break]

\* the walk has reached an entry and calls calculate_ndl_tts
InitNdl ==
  /\ \E t \in NdlTissues, g \in Gradients :
        ds = [init_decompression EXCEPT !.tissue = t, !.gradient = g]
  /\ \E d \in NdlDepths, n \in NdlPriors :
        pi = [entry |-> <<[ZeroEntry EXCEPT !.sec = 30, !.depth = d,
                                            !.ndl_calc = n,
                                            !.tts_calc = n,
                                            !.kind = "sample"]>>,
              nr |-> 1, maxtime |-> 30]
  /\ \E m \in {"BUEHLMANN", "VPMB"} : prefs = [NoPrefs EXCEPT !.decoMode = m]
  /\ dc = [sample |-> <<>>, events |-> <<>>,
           divemode |-> "OC", no_o2sensors |-> 0]
  /\ dive = NoDive
  /\ loc = NoLoc
  /\ sacloc = NoSacLoc
  /\ planner_ds = init_decompression
  /\ gate = "solver"
  /\ ppc = "idle"
  /\ dloc = [pcd |-> "sim_enter", ascent_depth |-> 0, next_stop |-> 0,
             break |-> FALSE, ds0 |-> ds, entry0 |-> pi.entry[1]]
  /\ pc = "ndl_tts"

NdlOthers == <<dc, dive, loc, sacloc, planner_ds, gate, ppc, prefs, pc>>

\* up to the first loop: the first stop, the reset of the TTS, the return
\* for a shallow entry with no ceiling
SimEnter ==
  /\ pc = "ndl_tts" /\ dloc.pcd = "sim_enter"
  /\ LET entry == pi.entry[1]
         next_stop == NextStop(ds, prefs.decoMode)
         e0 == [entry EXCEPT !.tts_calc = 0]
     IN  IF next_stop = 0
         THEN IF entry.depth < DECO_STEPSIZE
              THEN /\ pi' = [pi EXCEPT !.entry[1] =
                                [e0 EXCEPT !.ndl = MAX_PROFILE_DECO]]
                   /\ dloc' = [dloc EXCEPT !.pcd = "sim_done"]
              ELSE /\ pi' = [pi EXCEPT !.entry[1] = e0]
                   /\ dloc' = [dloc EXCEPT !.pcd = "ndl_loop"]
         ELSE /\ pi' = [pi EXCEPT !.entry[1] =
                           [e0 EXCEPT !.in_deco_calc = TRUE]]
              /\ dloc' = [dloc EXCEPT !.pcd = "ascent",
                                      !.ascent_depth = entry.depth,
                                      !.next_stop = next_stop]
  /\ UNCHANGED <<ds, NdlOthers>>

\* a pass of the NDL loop
NdlPass ==
  /\ pc = "ndl_tts" /\ dloc.pcd = "ndl_loop"
  /\ NdlCond(Sim, prefs.decoMode)
  /\ pi.entry[1].ndl_calc < MaxSimTime
  /\ LET r == NdlStep(Sim, prefs.decoMode)
     IN  /\ ds' = r.ds
         /\ pi' = [pi EXCEPT !.entry[1] = r.entry]
  /\ UNCHANGED <<dloc, NdlOthers>>

\* the NDL loop is over: return
NdlExit ==
  /\ pc = "ndl_tts" /\ dloc.pcd = "ndl_loop"
  /\ ~NdlCond(Sim, prefs.decoMode)
  /\ dloc' = [dloc EXCEPT !.pcd = "sim_done"]
  /\ UNCHANGED <<ds, pi, NdlOthers>>

\* a pass of the loop that moves to the first stop
AscentPass ==
  /\ pc = "ndl_tts" /\ dloc.pcd = "ascent"
  /\ AscentCond(Sim)
  /\ LET r == AscentStep(Sim, prefs.decoMode)
     IN  /\ ds' = r.ds
         /\ pi' = [pi EXCEPT !.entry[1] = r.entry]
         /\ dloc' = [dloc EXCEPT !.ascent_depth = r.ascent_depth,
                                 !.next_stop = r.next_stop]
  /\ UNCHANGED NdlOthers

\* the first stop is reached
AscentExit ==
  /\ pc = "ndl_tts" /\ dloc.pcd = "ascent"
  /\ ~AscentCond(Sim)
  /\ pi' = [pi EXCEPT !.entry[1].stoptime_calc = 0,
                      !.entry[1].stopdepth_calc = dloc.next_stop]
  /\ dloc' = [dloc EXCEPT !.pcd = "stop_loop",
                          !.ascent_depth = dloc.next_stop,
                          !.next_stop = dloc.next_stop - DECO_STEPSIZE]
  /\ UNCHANGED <<ds, NdlOthers>>

\* a pass of the loop over the stops up to the travel: a minute at the
\* stop, the return when the TTS is beyond the cap, the test of the ceiling
StopPass ==
  /\ pc = "ndl_tts" /\ dloc.pcd = "stop_loop"
  /\ StopCond(Sim)
  /\ pi.entry[1].tts_calc < MaxSimTime
  /\ LET e1 == [pi.entry[1] EXCEPT
                  !.stoptime_calc =
                     IF dloc.ascent_depth = pi.entry[1].stopdepth_calc
                     THEN @ + TIME_STEPSIZE ELSE @,
                  !.tts_calc = @ + TIME_STEPSIZE]
         s1 == add_segment(ds, depth_to_mbar(dloc.ascent_depth), TIME_STEPSIZE)
     IN  /\ pi' = [pi EXCEPT !.entry[1] = e1]
         /\ IF e1.tts_calc > MAX_PROFILE_DECO
            THEN /\ ds' = ds
                 /\ dloc' = [dloc EXCEPT !.break = TRUE]
            ELSE /\ ds' = s1
                 /\ dloc' = [dloc EXCEPT !.pcd =
                      IF deco_allowed_depth(
                           tissue_tolerance_calc(s1, prefs.decoMode),
                           surface_pressure, TRUE) <= dloc.next_stop
                      THEN "travel" ELSE "stop_loop"]
  /\ UNCHANGED NdlOthers

\* a pass of the loop that travels to the next stop
TravelPass ==
  /\ pc = "ndl_tts" /\ dloc.pcd = "travel"
  /\ AscentCond(Sim)
  /\ LET r == TravelStep(Sim)
     IN  /\ ds' = r.ds
         /\ pi' = [pi EXCEPT !.entry[1] = r.entry]
         /\ dloc' = [dloc EXCEPT !.ascent_depth = r.ascent_depth]
  /\ UNCHANGED NdlOthers

\* the next stop is reached
TravelExit ==
  /\ pc = "ndl_tts" /\ dloc.pcd = "travel"
  /\ ~AscentCond(Sim)
  /\ dloc' = [dloc EXCEPT !.pcd = "stop_loop",
                          !.ascent_depth = dloc.next_stop,
                          !.next_stop = dloc.next_stop - DECO_STEPSIZE]
  /\ UNCHANGED <<ds, pi, NdlOthers>>

\* the surface is reached or the TTS is beyond the cap: return
StopExit ==
  /\ pc = "ndl_tts" /\ dloc.pcd = "stop_loop"
  /\ ~StopCond(Sim)
  /\ dloc' = [dloc EXCEPT !.pcd = "sim_done"]
  /\ UNCHANGED <<ds, pi, NdlOthers>>

NextNdl ==
  \/ SimEnter \/ NdlPass \/ NdlExit \/ AscentPass \/ AscentExit
  \/ StopPass \/ TravelPass \/ TravelExit \/ StopExit

SpecNdl == InitNdl /\ [][NextNdl]_vars

\* the function runs on: no step that is possible is put off for ever
SpecNdlLive == SpecNdl /\ WF_vars(NextNdl)

(* ================= claims about the end of the simulation ============= *)
\* C21: every run of calculate_ndl_tts comes to its end; the NDL loop
\* stops when a ceiling appears or the NDL has reached 7200 s, so that the
\* recalculated NDL is within 0 .. 7200; the stop loop ends when the
\* surface is reached or the TTS has passed 7200 s, one pass of 60 s and
\* one travel between stops at most beyond it.
C21_Terminates ==
  /\ <>(dloc.pcd = "sim_done")
  /\ [](/\ pi.entry[1].ndl_calc >= 0
        /\ pi.entry[1].ndl_calc <= MAX_PROFILE_DECO
        /\ dloc.pcd = "ndl_loop" =>
             (NdlCond(Sim, prefs.decoMode) <=>
                /\ NextStop(ds, prefs.decoMode) = 0
                /\ pi.entry[1].ndl_calc < MAX_PROFILE_DECO)
        /\ dloc.pcd = "stop_loop" =>
             /\ pi.entry[1].tts_calc
                  <= MAX_PROFILE_DECO + TIME_STEPSIZE
                     + DECO_STEPSIZE \div ASCENT_RATE
             /\ (dloc.break <=> pi.entry[1].tts_calc > MAX_PROFILE_DECO)
             /\ ~StopCond(Sim) => (dloc.break \/ dloc.ascent_depth = 0))

\* a simulation has ended with stops and a TTS, another with the NDL
\* at the cap
C21_Witness ==
  /\ dloc.pcd = "sim_done"
  /\ \/ /\ pi.entry[1].in_deco_calc
        /\ pi.entry[1].tts_calc > TIME_STEPSIZE
        /\ dloc.ascent_depth = 0
        /\ dloc.next_stop < 0
     \/ /\ pi.entry[1].ndl_calc = MAX_PROFILE_DECO
        /\ pi.entry[1].depth = 6000
        /\ ds.tissue = depth_to_mbar(6000)

\* the steps end in what the function calculate_ndl_tts of the walk gives
SimAgrees ==
  dloc.pcd = "sim_done" =>
    calculate_ndl_tts(dloc.ds0, dloc.entry0, prefs.decoMode)
      = [ds |-> ds, entry |-> pi.entry[1]]

(* ============== the estimator on a series with pressures ============== *)
\* the entries between the padding of the series
MaxWindowEntries == 4

\* the seconds from an entry to the next one
WindowGaps == {10, 25}
\* the cylinders an entry has an interpolated pressure for
WindowReadings == {{}, {0}, Cyls}

RECURSIVE SecsOf(_, _)
SecsOf(gaps, t) ==
  IF gaps = <<>> THEN <<t>> ELSE <<t>> \o SecsOf(Tail(gaps), t + Head(gaps))

\* a series as populate_pressure_information of gaspressures.c leaves it:
\* two entries of padding, entries at depth that have interpolated
\* pressures for some cylinders, two entries of padding
WindowSeries ==
  {LET secs == SecsOf(gaps, 10)
       n == Len(secs)
   IN  <<ZeroEntry, ZeroEntry>>
       \o [k \in 1 .. n |->
             [ZeroEntry EXCEPT
                !.sec = secs[k], !.depth = 6000, !.kind = "sample",
                !.ipressure = [c \in Cyls |->
                                 IF c \in rd[k] THEN 200000 - 10 * secs[k] - c
                                 ELSE 0]]]
       \o <<[ZeroEntry EXCEPT !.sec = secs[n] + 1],
            [ZeroEntry EXCEPT !.sec = secs[n] + 2]>> :
     gaps \in [1 .. MaxWindowEntries - 1 -> WindowGaps],
     rd \in [1 .. MaxWindowEntries -> WindowReadings]}

\* create_plot_info_new calls calculate_sac
InitSacWindow ==
  /\ \E e \in WindowSeries :
        pi = [entry |-> e, nr |-> Len(e), maxtime |-> e[Len(e)].sec - 2]
  /\ \E ev \in {<<>>, <<MkGasChange(35, 1)>>} :
        dc = [sample |-> <<>>, events |-> ev,
              divemode |-> "OC", no_o2sensors |-> 0]
  /\ dive \in SacDiveInputs
  /\ loc = NoLoc
  /\ sacloc = NoSacLoc
  /\ DecoIdle
  /\ pc = "sac"

SpecSacWindow == InitSacWindow /\ [][NextSac]_vars

(* ==================== claims about the window of a SAC ================ *)
\* the cylinders of the mix in use at entry k that entry j has a pressure for
ReadingsAt(j, k) == have_pressures(pi.entry[j], GasesAt(k))

\* the window fill_sac uses for the entry at index k
WindowOf(k) == SacWindow(pi, k, ReadingsAt(k, k))

\* the window of entry k holds the entry, begins at most 30 s before it
\* and ends at most 60 s after it
WindowAround(k) ==
  /\ WindowOf(k).first <= k
  /\ k <= WindowOf(k).last
  /\ pi.entry[WindowOf(k).first].sec >= pi.entry[k].sec - 30
  /\ pi.entry[WindowOf(k).last].sec <= pi.entry[k].sec + 60

DegenerateWindow(k) ==
  /\ WindowOf(k).first < WindowOf(k).last
  /\ \A j \in WindowOf(k).first .. WindowOf(k).last :
        pi.entry[j].sec = pi.entry[WindowOf(k).first].sec

\* C23 as claimed: the estimator gives SAC 0 when the window of the entry
\* has distinct first and last entries that all have the same timestamp;
\* no value comes from a division by a time integral of zero.
C23_DegenerateZero ==
  \A k \in 1 .. sacloc.i :
     (DeviceSac(k) = 0 /\ ReadingsAt(k, k) /= {} /\ DegenerateWindow(k))
        => pi.entry[k].sac = 0

(* ============ claims about samples that do not advance in time ======== *)
\* the sample the coming pass of the loop handles is not later than the
\* sample before it
NextSampleNotLater ==
  /\ pc = "samples"
  /\ loc.i >= 1
  /\ loc.i < Len(dc.sample)
  /\ dc.sample[loc.i + 1].time <= dc.sample[loc.i].time

\* C24: a sample whose timestamp is equal to or smaller than the one of the
\* previous sample gets exactly one entry, a sample entry that carries the
\* time of the previous sample's entry and the sample's own depth; no
\* raster or event entry is inserted for it, and the loop goes on to the
\* following sample.
C24_ClampedSample ==
  [][(NextSampleNotLater /\ ~loc'.overflow) =>
       /\ loc'.idx = loc.idx + 1
       /\ loc'.entry[loc'.idx].kind = "sample"
       /\ loc'.entry[loc'.idx].sec = loc.entry[loc.idx].sec
       /\ loc'.entry[loc'.idx].depth = dc.sample[loc.i + 1].depth
       /\ \A k \in 1 .. loc.idx : loc'.entry[k] = loc.entry[k]
       /\ loc'.i = loc.i + 1
       /\ pc' = "samples"]_vars

\* a sample earlier than the one before it has been given its entry and
\* another sample is still to come
C24_Witness ==
  /\ pc = "samples"
  /\ ~loc.overflow
  /\ loc.i >= 2
  /\ loc.i < Len(dc.sample)
  /\ dc.sample[loc.i].time < dc.sample[loc.i - 1].time
  /\ loc.entry[loc.idx].kind = "sample"
  /\ loc.entry[loc.idx].sec = dc.sample[loc.i - 1].time
  /\ loc.entry[loc.idx - 1].kind = "sample"

(* ========================== analyze_plot_info ========================= *)
\* velocity_t, in the order of its enumeration
STABLE == 0
SLOW == 1
MODERATE == 2
FAST == 3
CRAZY == 4

\* #define HALF_INTERVAL 9 * 30
HALF_INTERVAL == 270

\* the shortest interval whose speed is taken as it is (lines 292, 294)
SHORT_INTERVAL == 15

\* velocity(): the class of a speed in mm/s, ascent negative
velocity(speed) ==
  IF speed < -304 THEN CRAZY
  ELSE IF speed < -152 THEN FAST
  ELSE IF speed < -76 THEN MODERATE
  ELSE IF speed < -25 THEN SLOW
  ELSE IF speed < 25 THEN STABLE
  ELSE IF speed < 152 THEN SLOW
  ELSE IF speed < 304 THEN MODERATE
  ELSE IF speed < 507 THEN FAST
  ELSE CRAZY

\* entry[off] for the entry with index i (indices count from 0)
EntryAt(e, i, off) == e[i + off + 1]

\* the lookback with no test of the start of the series
RECURSIVE PastLoop_NoFloor(_, _, _)
PastLoop_NoFloor(e, i, past) ==
  IF i + past >= 0 /\ EntryAt(e, i, 0).sec - EntryAt(e, i, past).sec < SHORT_INTERVAL
  THEN PastLoop_NoFloor(e, i, past - 1)
  ELSE past

\* int past = -2; while (i + past > 0 && entry[0].sec - entry[past].sec < 15) past--;
RECURSIVE PastLoop(_, _, _)
PastLoop(e, i, past) ==
  IF i + past > 0 /\ EntryAt(e, i, 0).sec - EntryAt(e, i, past).sec < SHORT_INTERVAL
  THEN PastLoop(e, i, past - 1)
  ELSE past

\* the body of the first loop of analyze_plot_info for index i (lines
\* 279-302); fault records a read before the series or a division by zero,
\* after which the entry is left as it was
AnalyzeEntry(e, nr, i) ==
  LET cur == EntryAt(e, i, 0)
      prev == EntryAt(e, i, -1)
      smoothed == IF i < nr - 2
                  THEN CDiv(EntryAt(e, i, -2).depth + 2 * prev.depth + 3 * cur.depth
                            + 2 * EntryAt(e, i, 1).depth + EntryAt(e, i, 2).depth + 4, 9)
                  ELSE cur.smoothed
      dt == cur.sec - prev.sec
      speed == CDiv(cur.depth - prev.depth, dt)
      past == PastLoop(e, i, -2)
      pdt == cur.sec - EntryAt(e, i, past).sec
      looks == dt < SHORT_INTERVAL /\ velocity(speed) < FAST
  IN  IF dt = 0
      THEN [entry |-> [e EXCEPT ![i + 1].smoothed = smoothed,
                                ![i + 1].velocity = STABLE,
                                ![i + 1].speed = 0],
            past |-> 0, fault |-> "none"]
      ELSE IF ~looks
      THEN [entry |-> [e EXCEPT ![i + 1].smoothed = smoothed,
                                ![i + 1].velocity = velocity(speed),
                                ![i + 1].speed = speed],
            past |-> 0, fault |-> "none"]
      ELSE IF i + past < 0
      THEN [entry |-> e, past |-> past, fault |-> "bounds"]
      ELSE IF pdt = 0
      THEN [entry |-> e, past |-> past, fault |-> "divide"]
      ELSE [entry |-> [e EXCEPT ![i + 1].smoothed = smoothed,
                                ![i + 1].velocity =
                                   velocity(CDiv(cur.depth - EntryAt(e, i, past).depth, pdt)),
                                ![i + 1].speed = speed],
            past |-> past, fault |-> "none"]

\* "Go back 'seconds' in time" (lines 213-218)
RECURSIVE MinMaxBack(_, _, _)
MinMaxBack(e, k, start) ==
  IF k > 0 /\ ~(e[k].sec < start) THEN MinMaxBack(e, k - 1, start) ELSE k

\* "Then go forward until we hit an entry past the time" (lines 224-238)
RECURSIVE MinMaxForward(_, _, _, _)
MinMaxForward(e, k, end, mm) ==
  IF k < Len(e) /\ ~(e[k + 1].sec > end)
  THEN MinMaxForward(e, k + 1, end,
         [min |-> IF e[k + 1].depth < e[mm.min + 1].depth THEN k ELSE mm.min,
          max |-> IF e[k + 1].depth > e[mm.max + 1].depth THEN k ELSE mm.max])
  ELSE mm

\* analyze_plot_info_minmax for the entry with index i
analyze_plot_info_minmax(e, i) ==
  LET k == MinMaxBack(e, i, e[i + 1].sec - HALF_INTERVAL)
  IN  MinMaxForward(e, k, e[i + 1].sec + HALF_INTERVAL, [min |-> k, max |-> k])

(* ------------------------------ inputs -------------------------------- *)
MaxAnalyzeEntries == 4
AnalyzeGaps == {0, 7, 20}
AnalyzeDepths == {0, 500, 3000}

\* an entry as the earlier passes leave it for the classifier
MkAnalyzeEntry(t, d) ==
  [sec |-> t, depth |-> d, smoothed |-> 0, speed |-> 0, velocity |-> STABLE,
   min |-> 0, max |-> 0]

RECURSIVE GapSum(_, _)
GapSum(g, k) == IF k = 0 THEN 0 ELSE g[k] + GapSum(g, k - 1)

\* series with non-decreasing times, as populate_plot_entries produces
AnalyzeSeries ==
  UNION {{[k \in 1 .. n |-> MkAnalyzeEntry(GapSum(g, k - 1), d[k])] :
            g \in [1 .. n - 1 -> AnalyzeGaps], d \in [1 .. n -> AnalyzeDepths]} :
         n \in 3 .. MaxAnalyzeEntries}

(* ------------------------------ actions ------------------------------- *)
InitAnalyze ==
  /\ dc = [sample |-> <<>>, events |-> <<>>, divemode |-> "OC", no_o2sensors |-> 0]
  /\ \E s \in AnalyzeSeries : pi = [entry |-> s, nr |-> Len(s), maxtime |-> s[Len(s)].sec]
  /\ dive = NoDive
  /\ loc = [i |-> 2, past |-> 0, fault |-> "none"]
  /\ sacloc = NoSacLoc
  /\ DecoIdle
  /\ pc = "analyze"

\* one pass of for (i = 2; i < nr; i++)
AnalyzeStep ==
  /\ pc = "analyze"
  /\ loc.i < pi.nr
  /\ LET r == AnalyzeEntry(pi.entry, pi.nr, loc.i)
     IN  /\ pi' = [pi EXCEPT !.entry = r.entry]
         /\ loc' = [i |-> loc.i + 1, past |-> r.past, fault |-> r.fault]
         /\ pc' = IF r.fault = "none" THEN "analyze" ELSE "fault"
  /\ UNCHANGED <<dc, dive, sacloc, decovars>>

\* for (i = 0; i < nr; i++) analyze_plot_info_minmax(pi, i); return pi;
AnalyzeMinMax ==
  /\ pc = "analyze"
  /\ loc.i >= pi.nr
  /\ pi' = [pi EXCEPT !.entry =
               [k \in 1 .. Len(pi.entry) |->
                  [pi.entry[k] EXCEPT
                     !.min = analyze_plot_info_minmax(pi.entry, k - 1).min,
                     !.max = analyze_plot_info_minmax(pi.entry, k - 1).max]]]
  /\ pc' = "analyzed"
  /\ UNCHANGED <<dc, dive, loc, sacloc, decovars>>

NextAnalyze == AnalyzeStep \/ AnalyzeMinMax

SpecAnalyze == InitAnalyze /\ [][NextAnalyze]_vars

(* ===================== claims about the classifier ==================== *)
\* the indices the first loop has handled
Analyzed == {k \in 2 .. (pi.nr - 1) : k < loc.i}

\* the time between the entry with index k and its predecessor
IntervalOf(k) == pi.entry[k + 1].sec - pi.entry[k].sec

\* the speed between the entries with indices k and j, j before k
SpeedBetween(k, j) ==
  CDiv(pi.entry[k + 1].depth - pi.entry[j + 1].depth,
       pi.entry[k + 1].sec - pi.entry[j + 1].sec)

\* the latest index before k whose entry is at least 15 s older than the
\* entry with index k, 0 if there is none
LookbackIndex(k) ==
  LET old == {j \in 0 .. (k - 1) :
                pi.entry[k + 1].sec - pi.entry[j + 1].sec >= SHORT_INTERVAL}
  IN  IF old = {} THEN 0 ELSE SetMax(old)

\* C25: the classifier never reads before the first entry and never divides
\* by zero; an entry with a zero interval is STABLE with speed 0; an entry
\* with an interval above 0 and below 15 s whose own speed classes below
\* FAST is classed by the speed to the latest earlier entry that is at least
\* 15 s older, or to the first entry if there is none; any other entry is
\* classed by its own speed.
C25_Lookback ==
  /\ pc /= "fault"
  /\ loc.fault = "none"
  /\ \A k \in Analyzed :
        /\ pi.entry[k + 1].speed =
              (IF IntervalOf(k) = 0 THEN 0 ELSE SpeedBetween(k, k - 1))
        /\ pi.entry[k + 1].velocity =
              (IF IntervalOf(k) = 0 THEN STABLE
               ELSE IF IntervalOf(k) < SHORT_INTERVAL
                       /\ velocity(SpeedBetween(k, k - 1)) < FAST
               THEN velocity(SpeedBetween(k, LookbackIndex(k)))
               ELSE velocity(SpeedBetween(k, k - 1)))

\* the last entry was classed over a lookback that ran to the first entry,
\* with a class that differs from the class of its own speed, and an
\* earlier entry has a zero interval
C25_Witness ==
  /\ pc = "analyzed"
  /\ pi.nr = 4
  /\ loc.past = -3
  /\ IntervalOf(3) \in 1 .. (SHORT_INTERVAL - 1)
  /\ pi.entry[4].velocity /= velocity(pi.entry[4].speed)
  /\ IntervalOf(2) = 0
  /\ pi.entry[3].velocity = STABLE

(* ================ the series kept by create_plot_info_new ============= *)
\* Allocations are numbered from 1 in the order calloc returns them; NULL
\* is the null pointer.  loc holds the heap: last is last_pi_entry_new,
\* made the number of allocations so far, live the set of allocations not
\* yet freed, frees the number of times each allocation was passed to free.
NULL == 0
MaxCalls == 4
PlotInfos == {1, 2}

\* last_pi_entry_new after a failed allocation left as it was
LastSeries_KeepOnFailure(last, series) == IF series = NULL THEN last ELSE series

\* last_pi_entry_new = populate_plot_entries(dive, dc, pi);
LastSeries(last, series) == series

\* free(p): free(NULL) does nothing
Free(heap, p) ==
  IF p = NULL THEN heap
  ELSE [heap EXCEPT !.live = @ \ {p},
                    !.frees = [@ EXCEPT ![p] = @ + 1]]

\* calloc() that succeeds: a fresh allocation
Calloc(heap) ==
  [heap EXCEPT !.made = @ + 1,
               !.live = @ \cup {heap.made + 1},
               !.frees = @ @@ ((heap.made + 1) :> 0)]

InitCalls ==
  /\ dc = [sample |-> <<>>, events |-> <<>>, divemode |-> "OC", no_o2sensors |-> 0]
  /\ pi = [p \in PlotInfos |-> [entry |-> NULL, nr |-> 0]]
  /\ dive = NoDive
  /\ loc = [last |-> NULL, made |-> 0, live |-> {}, frees |-> <<>>,
            calls |-> 0, freed |-> NULL, outcome |-> "none"]
  /\ sacloc = NoSacLoc
  /\ DecoIdle
  /\ pc = "idle"

\* create_plot_info_new(dive, dc, &pi[p], ...) whose calloc succeeds:
\* pi->entry and last_pi_entry_new are the new allocation
CreatePlotInfo(p) ==
  /\ pc = "idle"
  /\ loc.calls < MaxCalls
  /\ LET h1 == Free(loc, loc.last)
         h2 == Calloc(h1)
     IN  /\ loc' = [h2 EXCEPT !.last = LastSeries(loc.last, h2.made),
                              !.calls = @ + 1,
                              !.freed = loc.last,
                              !.outcome = "series"]
         /\ pi' = [pi EXCEPT ![p].entry = h2.made, ![p].nr = 6]
         /\ pc' = IF loc.last /= NULL /\ loc.last \notin loc.live
                  THEN "double_free" ELSE "idle"
  /\ UNCHANGED <<dc, dive, sacloc, decovars>>

\* create_plot_info_new whose calloc returns NULL: pi->entry = NULL and
\* populate_plot_entries returns NULL, pi->nr is left as it was
CreatePlotInfoFails(p) ==
  /\ pc = "idle"
  /\ loc.calls < MaxCalls
  /\ LET h1 == Free(loc, loc.last)
     IN  /\ loc' = [h1 EXCEPT !.last = LastSeries(loc.last, NULL),
                              !.calls = @ + 1,
                              !.freed = loc.last,
                              !.outcome = "null"]
         /\ pi' = [pi EXCEPT ![p].entry = NULL]
         /\ pc' = IF loc.last /= NULL /\ loc.last \notin loc.live
                  THEN "double_free" ELSE "idle"
  /\ UNCHANGED <<dc, dive, sacloc, decovars>>

NextCalls ==
  \E p \in PlotInfos : CreatePlotInfo(p) \/ CreatePlotInfoFails(p)

SpecCalls == InitCalls /\ [][NextCalls]_vars

(* ================= claims about the life of the series ================ *)
\* no allocation has been freed more than once, at most one allocation is
\* live, it is the latest one made and the one last_pi_entry_new points to
FreedOnce ==
  /\ pc /= "double_free"
  /\ \A a \in 1 .. loc.made : loc.frees[a] <= 1
  /\ loc.live \subseteq {loc.made}
  /\ loc.live = {loc.last} \ {NULL}
  /\ \A a \in 1 .. loc.made : a \in loc.live <=> loc.frees[a] = 0

\* a call releases exactly the series the previous call produced (none
\* after a failed call) and, when its allocation succeeds, produces an
\* allocation that did not exist before
ReleasesPrevious ==
  loc'.calls = loc.calls + 1 =>
     /\ loc.live \ loc'.live = {loc.last} \ {NULL}
     /\ loc'.freed = loc.last
     /\ loc'.outcome = "series" =>
           (loc'.last \notin 1 .. loc.made /\ loc'.live = {loc'.last})
     /\ loc'.outcome = "null" => (loc'.last = NULL /\ loc'.live = {})

\* C26: after any sequence of create_plot_info_new calls, failed
\* allocations included, every series has been freed at most once and only
\* the series made last can be live; each call frees exactly the series of
\* the call before it and a successful call makes a fresh one.
C26_SeriesLife == []FreedOnce /\ [][ReleasesPrevious]_vars

\* two successful calls, a failed call and a successful call: the first
\* two series were freed once each, the failed call left nothing to free
\* for the fourth call, and the third series is the only live one
C26_Witness ==
  /\ loc.calls = 4
  /\ loc.made = 3
  /\ loc.frees[1] = 1
  /\ loc.frees[2] = 1
  /\ loc.live = {3}
  /\ loc.outcome = "series"
  /\ loc.freed = NULL

(* ================== claims about the size of the series =============== *)
\* the number of entries populate_plot_entries allocates (line 528)
Allocated == Len(dc.sample) + 6 + CDiv(pi.maxtime, RASTER) + count_events(dc)

\* every event of the divecomputer is at or before maxtime
EventsWithinMaxtime == \A t \in EventTimesOf(dc) : t <= pi.maxtime

\* C27: at every point of populate_plot_entries the number of entries
\* written (leading padding, raster, event and sample entries, trailing
\* padding) is at most samples + 6 + maxtime/10 + events, and no entry is
\* written past the allocated series.
C27_WithinAllocation ==
  (pc \in {"samples", "populated"} /\ EventsWithinMaxtime) =>
     /\ ~loc.overflow
     /\ loc.idx <= Len(loc.entry)
     /\ loc.idx <= Allocated

\* a finished series with raster, event and sample entries that fills the
\* allocation up to its last two entries
C27_Witness ==
  /\ pc = "populated"
  /\ EventsWithinMaxtime
  /\ pi.nr = Allocated - 2
  /\ \E k \in Entries : pi.entry[k].kind = "raster"
  /\ \E k \in Entries : pi.entry[k].kind = "event"
  /\ Len(dc.sample) = MaxSamples

(* ================= claims about the recalculated NDL ================== *)
\* the entry the simulation is run for, and what the simulation leaves in
\* it when its recalculated NDL starts from zero
SimulatedEntry == pi.entry[dloc.i + 1]
NdlFromZero ==
  calculate_ndl_tts(ds, [SimulatedEntry EXCEPT !.ndl_calc = 0],
                    prefs.decoMode).entry.ndl_calc

\* C28 as claimed: the recalculated NDL a simulation stores on an entry is
\* the one counted from zero on the tissue state of that entry in that
\* walk, whatever earlier walks have stored on the entry.
C28_NdlFromZero ==
  [][Simulates => pi'.entry[dloc.i + 1].ndl_calc = NdlFromZero]_vars

(* ============== claims about the values of the device ================= *)
\* the values the dive computer reported, as the densifier stored them
DeviceFields(e) == <<e.ndl, e.stopdepth, e.stoptime, e.tts, e.in_deco>>

\* C29 as claimed: no step of calculate_deco_information changes the NDL,
\* stop depth, stop time, TTS or in-deco flag the device reported on any
\* entry; only the recalculated fields and the ceiling change.
C29_DeviceFieldsKept ==
  [][pc = "deco" =>
       \A k \in 1 .. pi.nr : DeviceFields(pi'.entry[k]) = DeviceFields(pi.entry[k])]_vars

(* ======================= the event-name registry ====================== *)
\* A name is a sequence of characters; the C string ends with NUL.  loc
\* holds the registry: ev_namelist (lost when realloc failed), evn_used,
\* evn_allocated, and passed, the distinct non-empty names passed to
\* remember_event since the last clear_events, in the order of their first
\* call.
NUL == "NUL"
EVN_CHUNK == 10
MaxRegistryCalls == 5
EventNameInputs == {<<>>, <<"a">>, <<"a", "b">>, <<"b">>, <<"b", "a">>}

strlen(s) == Len(s)
CharAt(s, k) == IF k <= Len(s) THEN s[k] ELSE NUL

\* strncmp(s1, s2, n): 0 when the first n characters agree, up to and
\* including the NUL that ends a string
strncmp(s1, s2, n) ==
  IF \A k \in 1 .. n : CharAt(s1, k) = CharAt(s2, k) THEN 0 ELSE 1

\* the while loop of remember_event: some stored name matches
Known(reg, eventname) ==
  \E i \in 1 .. reg.evn_used :
     strncmp(eventname, reg.ev_namelist[i], strlen(eventname)) = 0

Range(s) == {s[k] : k \in 1 .. Len(s)}

Passed(reg, eventname) ==
  IF eventname /= <<>> /\ eventname \notin Range(reg.passed)
  THEN Append(reg.passed, eventname) ELSE reg.passed

InitRegistry ==
  /\ dc = [sample |-> <<>>, events |-> <<>>, divemode |-> "OC", no_o2sensors |-> 0]
  /\ pi = [entry |-> <<>>, nr |-> 0, maxtime |-> 0]
  /\ dive = NoDive
  /\ loc = [ev_namelist |-> <<>>, evn_used |-> 0, evn_allocated |-> 0,
            lost |-> FALSE, passed |-> <<>>, calls |-> 0]
  /\ sacloc = NoSacLoc
  /\ DecoIdle
  /\ pc = "registry"

RegistryOthers == <<dc, dive, pi, sacloc, decovars>>

\* remember_event(NULL)
RememberNull ==
  /\ pc = "registry"
  /\ loc.calls < MaxRegistryCalls
  /\ loc' = [loc EXCEPT !.calls = @ + 1]
  /\ UNCHANGED <<pc, RegistryOthers>>

\* remember_event(eventname) with the list in place and realloc, when it
\* is called, successful
RememberEvent(eventname) ==
  /\ pc = "registry"
  /\ loc.calls < MaxRegistryCalls
  /\ ~loc.lost
  /\ IF strlen(eventname) = 0 \/ Known(loc, eventname)
     THEN loc' = [loc EXCEPT !.calls = @ + 1,
                             !.passed = Passed(loc, eventname)]
     ELSE loc' = [loc EXCEPT
                    !.evn_allocated =
                       IF loc.evn_used = loc.evn_allocated
                       THEN @ + EVN_CHUNK ELSE @,
                    !.ev_namelist = Append(@, eventname),
                    !.evn_used = @ + 1,
                    !.calls = @ + 1,
                    !.passed = Passed(loc, eventname)]
  /\ UNCHANGED <<pc, RegistryOthers>>

\* remember_event(eventname) whose realloc returns NULL: evn_allocated is
\* raised, ev_namelist is NULL, "let's just bail out"
RememberEventReallocFails(eventname) ==
  /\ pc = "registry"
  /\ loc.calls < MaxRegistryCalls
  /\ ~loc.lost
  /\ strlen(eventname) /= 0 /\ ~Known(loc, eventname)
  /\ loc.evn_used = loc.evn_allocated
  /\ loc' = [loc EXCEPT !.evn_allocated = @ + EVN_CHUNK,
                        !.ev_namelist = <<>>,
                        !.lost = TRUE,
                        !.calls = @ + 1,
                        !.passed = Passed(loc, eventname)]
  /\ UNCHANGED <<pc, RegistryOthers>>

\* remember_event(eventname) after a failed realloc: ev_namelist[...] is
\* read or written through the NULL pointer
RememberEventOnLostList(eventname) ==
  /\ pc = "registry"
  /\ loc.calls < MaxRegistryCalls
  /\ loc.lost
  /\ strlen(eventname) /= 0
  /\ loc' = [loc EXCEPT !.calls = @ + 1]
  /\ pc' = "null_dereference"
  /\ UNCHANGED RegistryOthers

\* clear_events(): the names are freed, evn_used = 0; the list and
\* evn_allocated stay
ClearEvents ==
  /\ pc = "registry"
  /\ loc.calls < MaxRegistryCalls
  /\ ~(loc.lost /\ loc.evn_used > 0)
  /\ loc' = [loc EXCEPT !.ev_namelist = <<>>, !.evn_used = 0,
                        !.passed = <<>>, !.calls = @ + 1]
  /\ UNCHANGED <<pc, RegistryOthers>>

NextRegistry ==
  \/ RememberNull
  \/ \E eventname \in EventNameInputs :
        \/ RememberEvent(eventname)
        \/ RememberEventReallocFails(eventname)
        \/ RememberEventOnLostList(eventname)
  \/ ClearEvents

SpecRegistry == InitRegistry /\ [][NextRegistry]_vars

(* ====================== claims about the registry ===================== *)
\* C30 as claimed: as long as no realloc has failed, the registry holds
\* the distinct non-empty names passed since the last clear, each once and
\* in the order of their first call, and evn_used is at most evn_allocated.
C30_RegistryExact ==
  (pc = "registry" /\ ~loc.lost) =>
     /\ loc.ev_namelist = loc.passed
     /\ loc.evn_used = Len(loc.ev_namelist)
     /\ loc.evn_used <= loc.evn_allocated

====
